---------------------------- MODULE Spec2Model ----------------------------
(***************************************************************************)
(* A model of the index scan executor of                                   *)
(* components/tidb_query_vec_executors/src/index_scan_executor.rs:         *)
(* construction (BatchIndexScanExecutor::new), the column vector           *)
(* (build_column_vec) and the per-pair decode (process_kv_pair and the     *)
(* three layout rules it dispatches to).                                   *)
(*                                                                         *)
(* Keys and values are byte strings: sequences over 0..255 with the sizes  *)
(* of the program (19-byte key prefix, 8-byte integers, 9-byte legacy      *)
(* ceiling).  A 64-bit integer is its 8-byte big-endian two's-complement   *)
(* bit pattern, so `x as i64` of a u64 keeps the pattern.                  *)
(***************************************************************************)
EXTENDS Integers, Sequences, FiniteSets, TLC

\* ------------------------------------------------------------------ bounds

\* Number of process_kv_pair calls made on one executor.
MaxCalls == 2
\* Largest primary_column_ids_len handed to BatchIndexScanExecutor::new.
MaxPrimaryLen == 3
\* The largest scan_rows of a next_batch call.
MaxScanRows == 4
\* The most spans of a span set.
MaxSpans == 2

\* --------------------------------------------------------- program constants

\* tidb_query_datatype::codec::table
MAX_OLD_ENCODED_VALUE_LEN == 9
INDEX_VALUE_COMMON_HANDLE_FLAG == 127
PREFIX_LEN == 11
ID_LEN == 8
\* tidb_query_datatype::codec::datum
NIL_FLAG == 0
INT_FLAG == 3
UINT_FLAG == 4
VAR_INT_FLAG == 8
VAR_UINT_FLAG == 9
BYTES_FLAG == 1
FLOAT_FLAG == 5
MAX_FLAG == 250
\* tidb_query_datatype::codec::row::v2
CODEC_VERSION == 128
\* codec::number
U64_SIZE == 8

\* ------------------------------------------------------------ byte strings

\* Rust's s[a..b] (0-based, half-open); it aborts unless a <= b <= len.
SliceOk(s, a, b) == a >= 0 /\ a <= b /\ b <= Len(s)
Slice(s, a, b) == SubSeq(s, a + 1, b)
\* Rust's s[a..]
SliceFrom(s, a) == SubSeq(s, a + 1, Len(s))

RECURSIVE Concat(_)
Concat(ss) == IF ss = <<>> THEN <<>> ELSE Head(ss) \o Concat(Tail(ss))

Zeros(n) == [i \in 1..n |-> 0]

\* ------------------------------------------------------- results of a call

Ok(v) == [res |-> "Ok", val |-> v]
Err(m) == [res |-> "Err", msg |-> m]
Panic(m) == [res |-> "Panic", msg |-> m]
IsOk(r) == r.res = "Ok"

\* -------------------------------------------------------------- codec::number

\* The 8-byte two's-complement pattern of a small integer n, |n| < 2^15.
I64Of(n) ==
    IF n >= 0
    THEN <<0, 0, 0, 0, 0, 0, n \div 256, n % 256>>
    ELSE LET m == -n - 1
         IN  <<255, 255, 255, 255, 255, 255, 255 - (m \div 256), 255 - (m % 256)>>

\* NumberEncoder::write_u64: big-endian; `h as u64` keeps the pattern.
write_u64(pattern) == pattern

\* NumberDecoder::read_u64: the first 8 bytes, big-endian.
read_u64(buf) ==
    IF Len(buf) < U64_SIZE THEN Err("eof") ELSE Ok(SubSeq(buf, 1, U64_SIZE))

\* The order-preserving encoding of an i64 flips the sign bit.
FlipSign(pattern) ==
    [pattern EXCEPT ![1] = IF @ >= 128 THEN @ - 128 ELSE @ + 128]

\* NumberEncoder::write_i64 (memory-comparable).
write_i64(pattern) == FlipSign(pattern)

\* NumberDecoder::read_i64 (memory-comparable).
read_i64(buf) ==
    IF Len(buf) < U64_SIZE THEN Err("eof")
    ELSE Ok(FlipSign(SubSeq(buf, 1, U64_SIZE)))

\* NumberEncoder::write_f64 (memory-comparable) of the IEEE 754 bits of a
\* float: a positive float gets its sign bit set, a negative one is inverted.
write_f64(bits) ==
    IF bits[1] < 128 THEN [bits EXCEPT ![1] = @ + 128]
    ELSE [i \in 1..U64_SIZE |-> 255 - bits[i]]

\* NumberDecoder::read_f64 (memory-comparable): the IEEE 754 bits.
read_f64(buf) ==
    IF Len(buf) < U64_SIZE THEN Err("eof")
    ELSE LET u == SubSeq(buf, 1, U64_SIZE)
         IN  Ok(IF u[1] >= 128 THEN [u EXCEPT ![1] = @ - 128]
                ELSE [i \in 1..U64_SIZE |-> 255 - u[i]])

\* NumberEncoder::write_u16: big-endian.
write_u16(n) == <<n \div 256, n % 256>>

\* NumberDecoder::read_u16: big-endian.
read_u16(buf) ==
    IF Len(buf) < 2 THEN Err("eof") ELSE Ok(buf[1] * 256 + buf[2])

\* Zig-zag varint of a small integer (one or two bytes).
ZigZag(n) == IF n >= 0 THEN 2 * n ELSE -2 * n - 1
UnZigZag(u) == IF u % 2 = 0 THEN u \div 2 ELSE -((u + 1) \div 2)

write_var_u64(u) ==
    IF u < 128 THEN <<u>> ELSE <<128 + (u % 128), u \div 128>>

write_var_i64(n) == write_var_u64(ZigZag(n))

\* Length of the varint at the front of buf, or -1 when it does not end.
RECURSIVE VarLen(_)
VarLen(buf) ==
    IF buf = <<>> THEN -1
    ELSE IF buf[1] < 128 THEN 1
    ELSE LET r == VarLen(Tail(buf)) IN IF r < 0 THEN -1 ELSE r + 1

\* Value of a one- or two-byte varint.
VarValue(buf) ==
    IF buf[1] < 128 THEN buf[1] ELSE (buf[1] - 128) + 128 * buf[2]


\* ------------------------------------------------------------- codec::datum

\* The logical value of an integer column: NULL or the 64-bit pattern.
NULL == <<>>

\* datum::DATUM_DATA_NULL
DATUM_DATA_NULL == <<NIL_FLAG>>

\* A datum as the tests write it: Datum::I64(v), Datum::U64(v) or Datum::Null.
DatumI64(v) == [tp |-> "I64", v |-> v]
DatumU64(v) == [tp |-> "U64", v |-> v]
DatumNull == [tp |-> "Null", v |-> 0]

\* Datum::F64 by the IEEE 754 bits of the float, and the two bounds.
DatumF64(bits) == [tp |-> "F64", v |-> bits]
DatumMin == [tp |-> "Min", v |-> 0]
DatumMax == [tp |-> "Max", v |-> 0]

\* What the column holds once the datum is decoded: NULL, the 64-bit
\* pattern of an integer, or the bits of a float.
DatumLogical(d) ==
    CASE d.tp = "Null" -> NULL
      [] d.tp = "F64" -> d.v
      [] OTHER -> I64Of(d.v)

\* datum::encode_key of one datum (memory-comparable).
encode_key_datum(d) ==
    CASE d.tp = "I64" -> <<INT_FLAG>> \o write_i64(I64Of(d.v))
      [] d.tp = "U64" -> <<UINT_FLAG>> \o write_u64(I64Of(d.v))
      [] d.tp = "F64" -> <<FLOAT_FLAG>> \o write_f64(d.v)
      [] d.tp = "Min" -> <<BYTES_FLAG>>
      [] d.tp = "Max" -> <<MAX_FLAG>>
      [] OTHER -> <<NIL_FLAG>>

\* datum::encode_value of one datum (compact).
encode_value_datum(d) ==
    CASE d.tp = "I64" -> <<VAR_INT_FLAG>> \o write_var_i64(d.v)
      [] d.tp = "U64" -> <<VAR_UINT_FLAG>> \o write_var_u64(d.v)
      [] d.tp = "F64" -> <<FLOAT_FLAG>> \o write_f64(d.v)
      [] OTHER -> <<NIL_FLAG>>

\* datum::encode_key of a list of datums.
encode_key(ds) == Concat([i \in 1..Len(ds) |-> encode_key_datum(ds[i])])

\* datum::encode_value of a list of datums.
encode_value(ds) == Concat([i \in 1..Len(ds) |-> encode_value_datum(ds[i])])

\* datum::split_datum(buf, false): the first datum (flag included) and the rest.
split_datum(buf) ==
    IF buf = <<>> THEN Err("too short")
    ELSE LET flag == buf[1]
             pos == CASE flag = INT_FLAG -> U64_SIZE
                      [] flag = UINT_FLAG -> U64_SIZE
                      [] flag = FLOAT_FLAG -> U64_SIZE
                      [] flag = NIL_FLAG -> 0
                      [] flag = VAR_INT_FLAG -> VarLen(Tail(buf))
                      [] flag = VAR_UINT_FLAG -> VarLen(Tail(buf))
                      [] OTHER -> -2
         IN  IF pos = -2 THEN Err("unsupported data type")
             ELSE IF pos = -1 THEN Err("varint")
             ELSE IF Len(buf) < pos + 1 THEN Err("too short")
             ELSE Ok([value |-> SubSeq(buf, 1, 1 + pos),
                      remaining |-> SliceFrom(buf, 1 + pos)])

\* datum::skip_n: drop n datums from the front of buf.
RECURSIVE skip_n(_, _)
skip_n(buf, n) ==
    IF n = 0 THEN Ok(buf)
    ELSE LET sp == split_datum(buf)
         IN  IF ~IsOk(sp) THEN sp ELSE skip_n(sp.val.remaining, n - 1)

\* The integer a raw datum decodes to (ensure_all_decoded of an Int column).
RawLogical(raw) ==
    LET flag == raw[1]
        body == Tail(raw)
    IN  CASE flag = NIL_FLAG -> NULL
          [] flag = INT_FLAG -> read_i64(body).val
          [] flag = UINT_FLAG -> read_u64(body).val
          [] flag = FLOAT_FLAG -> read_f64(body).val
          [] flag = VAR_INT_FLAG -> I64Of(UnZigZag(VarValue(body)))
          [] flag = VAR_UINT_FLAG -> I64Of(VarValue(body))
          [] OTHER -> <<flag>>

\* ------------------------------------------------------------- codec::table

TABLE_PREFIX == 116
INDEX_PREFIX_SEP == <<95, 105>>
TABLE_ID == 3
INDEX_ID == 42

\* table::encode_index_seek_key: t | table id | _i | index id | encoded datums.
encode_index_seek_key(table_id, idx_id, encoded) ==
    <<TABLE_PREFIX>> \o write_i64(I64Of(table_id)) \o INDEX_PREFIX_SEP
        \o write_i64(I64Of(idx_id)) \o encoded

\* table::check_index_key: the key starts with t, 8 bytes of id and _i.
check_index_key(key) ==
    IF Len(key) < 1 THEN Err("eof")
    ELSE IF key[1] # TABLE_PREFIX THEN Err("record or index key expected")
    ELSE IF Len(key) < 1 + ID_LEN THEN Err("eof")
    ELSE IF Len(key) < PREFIX_LEN THEN Err("eof")
    ELSE IF SubSeq(key, 2 + ID_LEN, PREFIX_LEN) # INDEX_PREFIX_SEP
         THEN Err("expected key sep type")
    ELSE Ok(TRUE)

\* ----------------------------------------------------------- codec::row::v2

write_u16_le(n) == <<n % 256, n \div 256>>
read_u16_le(buf, at) == buf[at + 1] + 256 * buf[at + 2]

\* One column value of a row: a small integer in the narrowest width.
encode_v2_i64(v) ==
    IF v >= -128 /\ v <= 127
    THEN <<(v + 256) % 256>>
    ELSE LET u == (v + 65536) % 65536 IN <<u % 256, u \div 256>>

decode_v2_i64(src) ==
    CASE Len(src) = 1 -> Ok(IF src[1] >= 128 THEN src[1] - 256 ELSE src[1])
      [] Len(src) = 2 ->
            LET u == src[1] + 256 * src[2]
            IN  Ok(IF u >= 32768 THEN u - 65536 ELSE u)
      [] OTHER -> Err("invalid integer width")

\* End offsets of the values when laid out one after another.
RECURSIVE EndOffsets(_, _)
EndOffsets(vals, base) ==
    IF vals = <<>> THEN <<>>
    ELSE <<base + Len(Head(vals))>> \o EndOffsets(Tail(vals), base + Len(Head(vals)))

\* RowEncoder::write_row in the small layout; non_null is a sequence of
\* [id, v] sorted by id, null_ids a sorted sequence of ids.
write_row(non_null, null_ids) ==
    LET vals == [i \in 1..Len(non_null) |-> encode_v2_i64(non_null[i].v)]
        offs == EndOffsets(vals, 0)
    IN  <<CODEC_VERSION, 0>>
            \o write_u16_le(Len(non_null)) \o write_u16_le(Len(null_ids))
            \o [i \in 1..Len(non_null) |-> non_null[i].id]
            \o null_ids
            \o Concat([i \in 1..Len(offs) |-> write_u16_le(offs[i])])
            \o Concat(vals)

\* RowSlice::from_bytes (small layout).
RowSlice_from_bytes(data) ==
    IF Len(data) < 6 THEN Err("row: eof")
    ELSE IF data[1] # CODEC_VERSION THEN Err("row: version")
    ELSE LET nn == read_u16_le(data, 2)
             nl == read_u16_le(data, 4)
             hdr == 6 + nn + nl + 2 * nn
         IN  IF data[2] # 0 THEN Err("row: big layout")
             ELSE IF Len(data) < hdr THEN Err("row: eof")
             ELSE Ok([non_null_ids |-> Slice(data, 6, 6 + nn),
                      null_ids |-> Slice(data, 6 + nn, 6 + nn + nl),
                      offsets |-> [i \in 1..nn |->
                                      read_u16_le(data, 6 + nn + nl + 2 * (i - 1))],
                      values |-> SliceFrom(data, hdr)])

IndexOf(s, x) ==
    IF \E i \in 1..Len(s) : s[i] = x
    THEN CHOOSE i \in 1..Len(s) : s[i] = x
    ELSE 0

\* RowSlice::search_in_non_null_ids: the span of the column's value, if any.
search_in_non_null_ids(row, col_id) ==
    LET idx == IF col_id >= 1 /\ col_id <= 255 THEN IndexOf(row.non_null_ids, col_id) ELSE 0
    IN  IF idx = 0 THEN Ok([found |-> FALSE, start |-> 0, offset |-> 0])
        ELSE Ok([found |-> TRUE,
                 start |-> IF idx > 1 THEN row.offsets[idx - 1] ELSE 0,
                 offset |-> row.offsets[idx]])

\* RowSlice::search_in_null_ids
search_in_null_ids(row, col_id) ==
    col_id >= 1 /\ col_id <= 255 /\ IndexOf(row.null_ids, col_id) # 0

\* V1CompatibleEncoder::write_v2_as_datum for a signed integer column.
write_v2_as_datum(src) ==
    LET d == decode_v2_i64(src)
    IN  IF ~IsOk(d) THEN d ELSE Ok(<<VAR_INT_FLAG>> \o write_var_i64(d.val))

\* ------------------------------------------------- BatchIndexScanExecutor::new

\* A tipb::ColumnInfo: the column id and the pk_handle flag.
ColumnInfo(id, pk) == [column_id |-> id, pk_handle |-> pk]

\* The fields of IndexScanExecutorImpl; schema holds one entry per column.
NoImp ==
    [schema |-> <<>>, columns_id_without_handle |-> <<>>,
     decode_handle_strategy |-> "None"]

\* handle_strategy with the both-handles arm decoding the int handle, as the
\* comment on that arm words it, instead of rejecting.
handle_strategy_try_int(is_int_handle, is_common_handle, primary_column_ids_len) ==
    CASE ~is_int_handle /\ ~is_common_handle ->
            Ok([strategy |-> "NoDecode", cnt |-> 0])
      [] ~is_int_handle /\ is_common_handle ->
            Ok([strategy |-> "DecodeCommonHandle", cnt |-> primary_column_ids_len])
      [] OTHER -> Ok([strategy |-> "DecodeIntHandle", cnt |-> 1])

\* The (int handle, common handle) match of new: strategy and handle count.
handle_strategy(is_int_handle, is_common_handle, primary_column_ids_len) ==
    CASE ~is_int_handle /\ ~is_common_handle ->
            Ok([strategy |-> "NoDecode", cnt |-> 0])
      [] ~is_int_handle /\ is_common_handle ->
            Ok([strategy |-> "DecodeCommonHandle", cnt |-> primary_column_ids_len])
      [] is_int_handle /\ ~is_common_handle ->
            Ok([strategy |-> "DecodeIntHandle", cnt |-> 1])
      [] OTHER -> Err(<<"Both int handle and common handle are push downed", 0>>)

\* handle_count_exceeds comparing with >= on the wrong side: it lets a count
\* one above the length through.
handle_count_exceeds_off_by_one(handle_column_cnt, columns_info) ==
    handle_column_cnt > Len(columns_info) + 1

\* The check of the handle count against the length of columns_info.
handle_count_exceeds(handle_column_cnt, columns_info) ==
    handle_column_cnt > Len(columns_info)

\* new taking the pk_handle flag of any column for that of the last one.
new_any_flag(columns_info, primary_column_ids_len) ==
    LET is_int_handle ==
            \E i \in 1..Len(columns_info) : columns_info[i].pk_handle
        is_common_handle == primary_column_ids_len > 0
        hs == handle_strategy(is_int_handle, is_common_handle, primary_column_ids_len)
    IN  IF ~IsOk(hs) THEN hs
        ELSE IF handle_count_exceeds(hs.val.cnt, columns_info)
        THEN Err(<<"The number of handle columns exceeds the length of columns_info", 0>>)
        ELSE Ok([schema |-> [i \in 1..Len(columns_info) |-> "Int"],
                 columns_id_without_handle |->
                     [i \in 1..(Len(columns_info) - hs.val.cnt) |->
                         columns_info[i].column_id],
                 decode_handle_strategy |-> hs.val.strategy])

\* BatchIndexScanExecutor::new, up to the construction of the impl.
new(columns_info, primary_column_ids_len) ==
    LET is_int_handle ==
            IF columns_info = <<>> THEN FALSE
            ELSE columns_info[Len(columns_info)].pk_handle
        is_common_handle == primary_column_ids_len > 0
        hs == handle_strategy(is_int_handle, is_common_handle, primary_column_ids_len)
    IN  IF ~IsOk(hs) THEN hs
        ELSE IF handle_count_exceeds(hs.val.cnt, columns_info)
        THEN Err(<<"The number of handle columns exceeds the length of columns_info", 0>>)
        ELSE IF ~SliceOk(columns_info, 0, Len(columns_info) - hs.val.cnt)
        THEN Panic(<<"slice index out of range", Len(columns_info) - hs.val.cnt>>)
        ELSE Ok([schema |-> [i \in 1..Len(columns_info) |-> "Int"],
                 columns_id_without_handle |->
                     [i \in 1..(Len(columns_info) - hs.val.cnt) |->
                         columns_info[i].column_id],
                 decode_handle_strategy |-> hs.val.strategy])

\* ---------------------------------------------------------- LazyBatchColumn

raw_with_capacity == [kind |-> "raw", rows |-> <<>>]
decoded_with_capacity_and_tp == [kind |-> "decoded", rows |-> <<>>]

\* build_column_vec building the int handle column raw like the others.
build_column_vec_all_raw(imp) ==
    LET columns_len == Len(imp.schema)
        n == Len(imp.columns_id_without_handle)
        index_part == [i \in 1..n |-> raw_with_capacity]
        handle_part ==
            CASE imp.decode_handle_strategy = "DecodeIntHandle" ->
                    <<raw_with_capacity>>
              [] imp.decode_handle_strategy = "DecodeCommonHandle" ->
                    [i \in 1..(columns_len - n) |-> raw_with_capacity]
              [] OTHER -> <<>>
        columns == index_part \o handle_part
    IN  IF Len(columns) # columns_len
        THEN Panic(<<"assertion failed: columns.len() == columns_len", Len(columns)>>)
        ELSE Ok(columns)

\* IndexScanExecutorImpl::build_column_vec
build_column_vec(imp) ==
    LET columns_len == Len(imp.schema)
        n == Len(imp.columns_id_without_handle)
        index_part == [i \in 1..n |-> raw_with_capacity]
        handle_part ==
            CASE imp.decode_handle_strategy = "DecodeIntHandle" ->
                    <<decoded_with_capacity_and_tp>>
              [] imp.decode_handle_strategy = "DecodeCommonHandle" ->
                    [i \in 1..(columns_len - n) |-> raw_with_capacity]
              [] OTHER -> <<>>
        columns == index_part \o handle_part
    IN  IF Len(columns) # columns_len
        THEN Panic(<<"assertion failed: columns.len() == columns_len", Len(columns)>>)
        ELSE Ok(columns)

\* push_raw writing one column too far (the last column when there is none).
push_raw_off_by_one(columns, i, v) ==
    LET j == IF i + 2 <= Len(columns) THEN i + 2 ELSE i + 1
    IN  [columns EXCEPT ![j].rows = Append(@, v)]

\* columns[i].mut_raw().push(v), i counted from 0.
push_raw(columns, i, v) ==
    [columns EXCEPT ![i + 1].rows = Append(@, v)]

\* columns[i].mut_decoded().push_int(Some(v)), i counted from 0.
push_int(columns, i, v) ==
    [columns EXCEPT ![i + 1].rows = Append(@, v)]

\* The locals of one process_kv_pair call that the properties speak of.
NoLoc ==
    [layout |-> "none", tail_len |-> -1, restore_values |-> <<>>,
     restore_read |-> FALSE, handle_len |-> -1, handle_end_offset |-> -1,
     common_handle |-> <<>>, handle_read |-> FALSE, handle_from |-> "none",
     handle_bytes |-> <<>>]

\* The outcome of a decode step: result, message, the columns as the step
\* left them, the unread rest of the cursor, and the locals.
Out(res, msg, columns, datum) ==
    [res |-> res, msg |-> msg, columns |-> columns, datum |-> datum, loc |-> NoLoc]

\* ----------------------------------------------------- IndexScanExecutorImpl

\* decode_handle_from_value reading with number::decode_i64, which the NOTE
\* in the function warns against.
decode_handle_from_value_as_i64(value) ==
    LET r == read_i64(value)
    IN  IF IsOk(r) THEN r ELSE Err(<<"Failed to decode handle in value as i64", 0>>)

\* decode_handle_from_value: the first 8 bytes as u64, kept as i64.
decode_handle_from_value(value) ==
    LET r == read_u64(value)
    IN  IF IsOk(r) THEN r ELSE Err(<<"Failed to decode handle in value as i64", 0>>)

\* decode_handle_from_key reading the integer as unsigned whatever the flag.
decode_handle_from_key_unsigned(key) ==
    IF key = <<>> THEN Panic(<<"index out of bounds: key[0]", 0>>)
    ELSE IF key[1] \notin {INT_FLAG, UINT_FLAG}
    THEN Err(<<"Unexpected handle flag", key[1]>>)
    ELSE LET r == read_u64(SliceFrom(key, 1))
         IN  IF IsOk(r) THEN r ELSE Err(<<"Failed to decode handle in key as u64", 0>>)

\* decode_handle_from_key reading a signed integer behind any flag that is
\* not the unsigned one.
decode_handle_from_key_any_flag(key) ==
    IF key = <<>> THEN Panic(<<"index out of bounds: key[0]", 0>>)
    ELSE LET flag == key[1]
             val == SliceFrom(key, 1)
         IN  IF flag = UINT_FLAG
             THEN LET r == read_u64(val)
                  IN  IF IsOk(r) THEN r
                      ELSE Err(<<"Failed to decode handle in key as u64", 0>>)
             ELSE LET r == read_i64(val)
                  IN  IF IsOk(r) THEN r
                      ELSE Err(<<"Failed to decode handle in key as i64", 0>>)

\* decode_handle_from_key: the flag byte, then a signed or unsigned integer.
decode_handle_from_key(key) ==
    IF key = <<>> THEN Panic(<<"index out of bounds: key[0]", 0>>)
    ELSE LET flag == key[1]
             val == SliceFrom(key, 1)
         IN  CASE flag = INT_FLAG ->
                    LET r == read_i64(val)
                    IN  IF IsOk(r) THEN r
                        ELSE Err(<<"Failed to decode handle in key as i64", 0>>)
               [] flag = UINT_FLAG ->
                    LET r == read_u64(val)
                    IN  IF IsOk(r) THEN r
                        ELSE Err(<<"Failed to decode handle in key as u64", 0>>)
               [] OTHER -> Err(<<"Unexpected handle flag", flag>>)

\* The loop of extract_columns_from_row_format from column idx on.
\* row_format_loop pushing NULL for a column that the row has in neither of
\* its id sets.
RECURSIVE row_format_loop_null_if_missing(_, _, _, _)
row_format_loop_null_if_missing(imp, row, columns, idx) ==
    IF idx >= Len(imp.columns_id_without_handle)
    THEN Out("Ok", <<"", 0>>, columns, <<>>)
    ELSE LET col_id == imp.columns_id_without_handle[idx + 1]
             found == search_in_non_null_ids(row, col_id)
         IN  IF columns[idx + 1].kind # "raw"
             THEN Out("Panic", <<"mut_raw on a decoded column", idx>>, columns, <<>>)
             ELSE IF found.val.found
             THEN IF ~SliceOk(row.values, found.val.start, found.val.offset)
                  THEN Out("Panic", <<"slice index out of range", idx>>, columns, <<>>)
                  ELSE LET d == write_v2_as_datum(
                                    Slice(row.values, found.val.start, found.val.offset))
                       IN  IF ~IsOk(d)
                           THEN Out("Err", <<"write_v2_as_datum", idx>>, columns, <<>>)
                           ELSE row_format_loop_null_if_missing(imp, row,
                                    push_raw(columns, idx, d.val), idx + 1)
             ELSE row_format_loop_null_if_missing(imp, row,
                      push_raw(columns, idx, DATUM_DATA_NULL), idx + 1)

RECURSIVE row_format_loop(_, _, _, _)
row_format_loop(imp, row, columns, idx) ==
    IF idx >= Len(imp.columns_id_without_handle)
    THEN Out("Ok", <<"", 0>>, columns, <<>>)
    ELSE LET col_id == imp.columns_id_without_handle[idx + 1]
             found == search_in_non_null_ids(row, col_id)
         IN  IF found.val.found
             THEN IF columns[idx + 1].kind # "raw"
                  THEN Out("Panic", <<"mut_raw on a decoded column", idx>>, columns, <<>>)
                  ELSE IF ~SliceOk(row.values, found.val.start, found.val.offset)
                  THEN Out("Panic", <<"slice index out of range", idx>>, columns, <<>>)
                  ELSE LET d == write_v2_as_datum(
                                    Slice(row.values, found.val.start, found.val.offset))
                       IN  IF ~IsOk(d)
                           THEN Out("Err", <<"write_v2_as_datum", idx>>, columns, <<>>)
                           ELSE row_format_loop(imp, row,
                                    push_raw(columns, idx, d.val), idx + 1)
             ELSE IF search_in_null_ids(row, col_id)
             THEN IF columns[idx + 1].kind # "raw"
                  THEN Out("Panic", <<"mut_raw on a decoded column", idx>>, columns, <<>>)
                  ELSE row_format_loop(imp, row,
                           push_raw(columns, idx, DATUM_DATA_NULL), idx + 1)
             ELSE Out("Err", <<"Unexpected missing column", col_id>>, columns, <<>>)

\* extract_columns_from_row_format
extract_columns_from_row_format(imp, value, columns) ==
    LET row == RowSlice_from_bytes(value)
    IN  IF ~IsOk(row) THEN Out("Err", <<row.msg, 0>>, columns, <<>>)
        ELSE row_format_loop(imp, row.val, columns, 0)

\* datum_format_loop taking an empty cursor for the end of the columns
\* instead of a missing value.
RECURSIVE datum_format_loop_lenient(_, _, _, _, _)
datum_format_loop_lenient(datum, columns, lo, hi, i) ==
    IF lo + i >= hi \/ datum = <<>> THEN Out("Ok", <<"", 0>>, columns, datum)
    ELSE LET sp == split_datum(datum)
         IN  IF ~IsOk(sp) THEN Out("Err", <<sp.msg, i>>, columns, datum)
             ELSE IF columns[lo + i + 1].kind # "raw"
             THEN Out("Panic", <<"mut_raw on a decoded column", lo + i>>, columns, datum)
             ELSE datum_format_loop_lenient(sp.val.remaining,
                      push_raw(columns, lo + i, sp.val.value), lo, hi, i + 1)

\* The loop of extract_columns_from_datum_format over columns[lo..hi], at
\* the i-th column of that slice.
RECURSIVE datum_format_loop(_, _, _, _, _)
datum_format_loop(datum, columns, lo, hi, i) ==
    IF lo + i >= hi THEN Out("Ok", <<"", 0>>, columns, datum)
    ELSE IF datum = <<>>
    THEN Out("Err", <<"th column is missing value", i>>, columns, datum)
    ELSE LET sp == split_datum(datum)
         IN  IF ~IsOk(sp) THEN Out("Err", <<sp.msg, i>>, columns, datum)
             ELSE IF columns[lo + i + 1].kind # "raw"
             THEN Out("Panic", <<"mut_raw on a decoded column", lo + i>>, columns, datum)
             ELSE datum_format_loop(sp.val.remaining,
                      push_raw(columns, lo + i, sp.val.value), lo, hi, i + 1)

\* extract_columns_from_datum_format splitting one datum off the cursor
\* before its loop: every column gets the datum of the column after it.
extract_columns_skipping_first(datum, columns, lo, hi) ==
    IF ~SliceOk(columns, lo, hi)
    THEN Out("Panic", <<"slice index out of range", lo>>, columns, datum)
    ELSE LET sp == split_datum(datum)
         IN  IF ~IsOk(sp) THEN Out("Err", <<sp.msg, 0>>, columns, datum)
             ELSE datum_format_loop(sp.val.remaining, columns, lo, hi, 0)

\* extract_columns_from_datum_format(datum, &mut columns[lo..hi])
extract_columns_from_datum_format(datum, columns, lo, hi) ==
    IF ~SliceOk(columns, lo, hi)
    THEN Out("Panic", <<"slice index out of range", lo>>, columns, datum)
    ELSE datum_format_loop(datum, columns, lo, hi, 0)

\* handle_end_corrupted with the check left out.
handle_end_unchecked(handle_end_offset, value) == FALSE

\* The bound check of process_unique_common_handle_kv on the handle's end.
handle_end_corrupted(handle_end_offset, value) == handle_end_offset > Len(value)

\* has_restore_data with <= for <: a value ending at the handle is taken to
\* carry (empty) restore data.
has_restore_data_or_none(handle_end_offset, value) == handle_end_offset <= Len(value)

\* Whether the value carries restore data after the common handle.
has_restore_data(handle_end_offset, value) == handle_end_offset < Len(value)

\* process_unique_common_handle_kv
process_unique_common_handle_kv(imp, key_payload, value, columns) ==
    LET n == Len(imp.columns_id_without_handle)
        hl == read_u16(SliceFrom(value, 2))
        L0 == [NoLoc EXCEPT !.layout = "unique_common"]
    IN  IF ~IsOk(hl)
        THEN [Out("Err", <<"Fail to read common handle's length from value", 0>>,
                  columns, <<>>) EXCEPT !.loc = L0]
        ELSE LET handle_len == hl.val
                 handle_end_offset == 4 + handle_len
                 L1 == [L0 EXCEPT !.handle_len = handle_len,
                                  !.handle_end_offset = handle_end_offset]
             IN  IF handle_end_corrupted(handle_end_offset, value)
                 THEN [Out("Err", <<"handle_len is corrupted", handle_len>>,
                           columns, <<>>) EXCEPT !.loc = L1]
                 ELSE LET restore == has_restore_data(handle_end_offset, value)
                          restore_values ==
                              IF restore THEN SliceFrom(value, handle_end_offset)
                              ELSE <<>>
                          L2 == [L1 EXCEPT !.restore_read = restore,
                                           !.restore_values = restore_values]
                          r1 == IF restore
                                THEN extract_columns_from_row_format(
                                         imp, restore_values, columns)
                                ELSE extract_columns_from_datum_format(
                                         key_payload, columns, 0, n)
                      IN  IF r1.res # "Ok" THEN [r1 EXCEPT !.loc = L2]
                          ELSE IF ~SliceOk(value, 4, handle_end_offset)
                          THEN [Out("Panic", <<"slice index out of range", 4>>,
                                    r1.columns, <<>>) EXCEPT !.loc = L2]
                          ELSE LET common_handle == Slice(value, 4, handle_end_offset)
                                   L3 == [L2 EXCEPT !.handle_read = TRUE,
                                                    !.handle_from = "value",
                                                    !.handle_bytes = common_handle,
                                                    !.common_handle = common_handle]
                                   r2 == extract_columns_from_datum_format(
                                             common_handle, r1.columns, n, Len(columns))
                               IN  [r2 EXCEPT !.loc = L3]

\* push_handle decoding the handle and leaving the column as it is.
push_handle_dropped(columns, n, handle, loc) ==
    IF n >= Len(columns)
    THEN [Out("Panic", <<"index out of bounds: columns[n]", n>>, columns, <<>>)
             EXCEPT !.loc = loc]
    ELSE IF columns[n + 1].kind # "decoded"
    THEN [Out("Panic", <<"mut_decoded on a raw column", n>>, columns, <<>>)
             EXCEPT !.loc = loc]
    ELSE [Out("Ok", <<"", 0>>, columns, <<>>) EXCEPT !.loc = loc]

\* columns[n].mut_decoded().push_int(Some(handle)) with its index and
\* representation checks.
push_handle(columns, n, handle, loc) ==
    IF n >= Len(columns)
    THEN [Out("Panic", <<"index out of bounds: columns[n]", n>>, columns, <<>>)
             EXCEPT !.loc = loc]
    ELSE IF columns[n + 1].kind # "decoded"
    THEN [Out("Panic", <<"mut_decoded on a raw column", n>>, columns, <<>>)
             EXCEPT !.loc = loc]
    ELSE [Out("Ok", <<"", 0>>, push_int(columns, n, handle), <<>>)
             EXCEPT !.loc = loc]

\* The check of process_new_collation_kv on tail_len.
tail_len_corrupted(tail_len, value) == tail_len > Len(value)

\* restore_end forgetting the tail: the restore data runs to the end.
restore_end_ignores_tail(value, tail_len) == Len(value)

\* The end of the restore data: value[1..value.len() - tail_len].
restore_end(value, tail_len) == Len(value) - tail_len

\* The match guard that sends an int handle to the key: tail_len < 8.
handle_is_in_key(tail_len) == tail_len < 8

\* handle_tail taking the last 8 bytes of the value whatever tail_len is.
handle_tail_last_8(value, tail_len) == SliceFrom(value, Len(value) - U64_SIZE)

\* The bytes handed to decode_handle_from_value: value[value.len() - tail_len..].
handle_tail(value, tail_len) == SliceFrom(value, Len(value) - tail_len)

\* process_new_collation_kv
process_new_collation_kv(imp, key_payload, value, columns) ==
    LET n == Len(imp.columns_id_without_handle)
        tail_len == value[1]
        L0 == [NoLoc EXCEPT !.layout = "new", !.tail_len = tail_len]
    IN  IF tail_len_corrupted(tail_len, value)
        THEN [Out("Err", <<"tail_len is corrupted", tail_len>>, columns, <<>>)
                 EXCEPT !.loc = L0]
        ELSE IF ~SliceOk(value, 1, restore_end(value, tail_len))
        THEN [Out("Panic", <<"slice index starts at 1 but ends at",
                             restore_end(value, tail_len)>>, columns, <<>>)
                 EXCEPT !.loc = L0]
        ELSE LET restore_values == Slice(value, 1, restore_end(value, tail_len))
                 L1 == [L0 EXCEPT !.restore_read = TRUE,
                                  !.restore_values = restore_values]
                 r1 == extract_columns_from_row_format(imp, restore_values, columns)
             IN  IF r1.res # "Ok" THEN [r1 EXCEPT !.loc = L1]
                 ELSE CASE imp.decode_handle_strategy = "NoDecode" ->
                             [r1 EXCEPT !.loc = L1]
                        [] imp.decode_handle_strategy = "DecodeIntHandle"
                               /\ handle_is_in_key(tail_len) ->
                             LET sk == skip_n(key_payload, n)
                             IN  IF ~IsOk(sk)
                                 THEN [Out("Err", <<sk.msg, 0>>, r1.columns, <<>>)
                                          EXCEPT !.loc = L1]
                                 ELSE LET h == decode_handle_from_key(sk.val)
                                          L2 == [L1 EXCEPT !.handle_from = "key",
                                                           !.handle_read = TRUE,
                                                           !.handle_bytes = sk.val]
                                      IN  IF ~IsOk(h)
                                          THEN [Out(h.res, h.msg, r1.columns, <<>>)
                                                   EXCEPT !.loc = L2]
                                          ELSE push_handle(r1.columns, n, h.val, L2)
                        [] imp.decode_handle_strategy = "DecodeIntHandle" ->
                             LET tail == handle_tail(value, tail_len)
                                 h == decode_handle_from_value(tail)
                                 L2 == [L1 EXCEPT !.handle_from = "value",
                                                  !.handle_read = TRUE,
                                                  !.handle_bytes = tail]
                             IN  IF ~IsOk(h)
                                 THEN [Out(h.res, h.msg, r1.columns, <<>>)
                                          EXCEPT !.loc = L2]
                                 ELSE push_handle(r1.columns, n, h.val, L2)
                        [] OTHER ->
                             LET sk == skip_n(key_payload, n)
                             IN  IF ~IsOk(sk)
                                 THEN [Out("Err", <<sk.msg, 0>>, r1.columns, <<>>)
                                          EXCEPT !.loc = L1]
                                 ELSE LET L2 == [L1 EXCEPT !.handle_from = "key",
                                                           !.handle_read = TRUE,
                                                           !.handle_bytes = sk.val]
                                          r2 == extract_columns_from_datum_format(
                                                    sk.val, r1.columns, n, Len(columns))
                                      IN  [r2 EXCEPT !.loc = L2]

\* handle_is_in_value with the test inverted.
handle_is_in_value_inverted(key_payload) == key_payload # <<>>

\* The match guard of process_old_collation_kv that looks the int handle up
\* in the value: the key payload is used up.
handle_is_in_value(key_payload) == key_payload = <<>>

\* process_old_collation_kv reading the common handle from the start of
\* the key payload, as if the index columns had not moved the cursor.
process_old_collation_kv_cursor_reset(imp, key_payload, value, columns) ==
    LET n == Len(imp.columns_id_without_handle)
        L0 == [NoLoc EXCEPT !.layout = "old"]
        r1 == extract_columns_from_datum_format(key_payload, columns, 0, n)
    IN  IF r1.res # "Ok" THEN [r1 EXCEPT !.loc = L0]
        ELSE CASE imp.decode_handle_strategy = "NoDecode" -> [r1 EXCEPT !.loc = L0]
               [] imp.decode_handle_strategy = "DecodeIntHandle"
                      /\ handle_is_in_value(r1.datum) ->
                    LET h == decode_handle_from_value(value)
                        L2 == [L0 EXCEPT !.handle_from = "value",
                                         !.handle_read = TRUE,
                                         !.handle_bytes = value]
                    IN  IF ~IsOk(h)
                        THEN [Out(h.res, h.msg, r1.columns, r1.datum) EXCEPT !.loc = L2]
                        ELSE push_handle(r1.columns, n, h.val, L2)
               [] imp.decode_handle_strategy = "DecodeIntHandle" ->
                    LET h == decode_handle_from_key(r1.datum)
                        L2 == [L0 EXCEPT !.handle_from = "key",
                                         !.handle_read = TRUE,
                                         !.handle_bytes = r1.datum]
                    IN  IF ~IsOk(h)
                        THEN [Out(h.res, h.msg, r1.columns, r1.datum) EXCEPT !.loc = L2]
                        ELSE push_handle(r1.columns, n, h.val, L2)
               [] OTHER ->
                    LET L2 == [L0 EXCEPT !.handle_from = "key",
                                         !.handle_read = TRUE,
                                         !.handle_bytes = r1.datum]
                        r2 == extract_columns_from_datum_format(
                                  key_payload, r1.columns, n, Len(columns))
                    IN  [r2 EXCEPT !.loc = L2]

\* process_old_collation_kv
process_old_collation_kv(imp, key_payload, value, columns) ==
    LET n == Len(imp.columns_id_without_handle)
        L0 == [NoLoc EXCEPT !.layout = "old"]
        r1 == extract_columns_from_datum_format(key_payload, columns, 0, n)
    IN  IF r1.res # "Ok" THEN [r1 EXCEPT !.loc = L0]
        ELSE CASE imp.decode_handle_strategy = "NoDecode" -> [r1 EXCEPT !.loc = L0]
               [] imp.decode_handle_strategy = "DecodeIntHandle"
                      /\ handle_is_in_value(r1.datum) ->
                    LET h == decode_handle_from_value(value)
                        L2 == [L0 EXCEPT !.handle_from = "value",
                                         !.handle_read = TRUE,
                                         !.handle_bytes = value]
                    IN  IF ~IsOk(h)
                        THEN [Out(h.res, h.msg, r1.columns, r1.datum) EXCEPT !.loc = L2]
                        ELSE push_handle(r1.columns, n, h.val, L2)
               [] imp.decode_handle_strategy = "DecodeIntHandle" ->
                    LET h == decode_handle_from_key(r1.datum)
                        L2 == [L0 EXCEPT !.handle_from = "key",
                                         !.handle_read = TRUE,
                                         !.handle_bytes = r1.datum]
                    IN  IF ~IsOk(h)
                        THEN [Out(h.res, h.msg, r1.columns, r1.datum) EXCEPT !.loc = L2]
                        ELSE push_handle(r1.columns, n, h.val, L2)
               [] OTHER ->
                    LET L2 == [L0 EXCEPT !.handle_from = "key",
                                         !.handle_read = TRUE,
                                         !.handle_bytes = r1.datum]
                        r2 == extract_columns_from_datum_format(
                                  r1.datum, r1.columns, n, Len(columns))
                    IN  [r2 EXCEPT !.loc = L2]

\* The test of process_kv_pair for a value flagged as unique common handle.
is_common_handle_value(value) ==
    value[1] <= 1 /\ value[2] = INDEX_VALUE_COMMON_HANDLE_FLAG

\* process_kv_pair
process_kv_pair(imp, key, value, columns) ==
    LET ck == check_index_key(key)
    IN  IF ~IsOk(ck) THEN Out("Err", <<ck.msg, 0>>, columns, <<>>)
        ELSE IF Len(key) < PREFIX_LEN + ID_LEN
        THEN Out("Panic", <<"slice index out of range", PREFIX_LEN + ID_LEN>>,
                 columns, <<>>)
        ELSE LET key_payload == SliceFrom(key, PREFIX_LEN + ID_LEN)
             IN  IF Len(value) > MAX_OLD_ENCODED_VALUE_LEN
                 THEN IF is_common_handle_value(value)
                      THEN IF imp.decode_handle_strategy # "DecodeCommonHandle"
                           THEN [Out("Err",
                                     <<"Expect to decode index values with common handles in DecodeCommonHandle mode.", 0>>,
                                     columns, <<>>)
                                    EXCEPT !.loc = [NoLoc EXCEPT !.layout = "unique_common"]]
                           ELSE process_unique_common_handle_kv(
                                    imp, key_payload, value, columns)
                      ELSE process_new_collation_kv(imp, key_payload, value, columns)
                 ELSE process_old_collation_kv(imp, key_payload, value, columns)

\* ------------------------------------------------ the stored pairs (tests)

\* Column ids of the schemas, as in the tests: index columns 1, 2, 3.
Schemas ==
    { <<>>,
      <<ColumnInfo(1, FALSE)>>,
      <<ColumnInfo(1, FALSE), ColumnInfo(2, FALSE)>>,
      <<ColumnInfo(1, FALSE), ColumnInfo(2, FALSE), ColumnInfo(3, FALSE)>>,
      <<ColumnInfo(3, TRUE)>>,
      <<ColumnInfo(1, FALSE), ColumnInfo(3, TRUE)>>,
      <<ColumnInfo(1, FALSE), ColumnInfo(2, FALSE), ColumnInfo(3, TRUE)>>,
      <<ColumnInfo(1, TRUE), ColumnInfo(2, FALSE)>>,
      <<ColumnInfo(1, TRUE), ColumnInfo(3, TRUE)>> }

\* Two rows of a table: the datums of up to three index columns and of up to
\* three handle columns (an int handle is the first handle datum).
RowA ==
    [idx |-> <<DatumU64(2), DatumU64(3), DatumI64(5)>>,
     handle |-> <<DatumI64(4), DatumU64(9), DatumI64(1)>>]
RowB ==
    [idx |-> <<DatumI64(-5), DatumNull, DatumI64(300)>>,
     handle |-> <<DatumI64(-1), DatumI64(10), DatumU64(2)>>]
TableRows == {RowA, RowB}

\* The number of handle columns a pair is built with for this executor.
HandleCount(imp) ==
    IF imp.decode_handle_strategy = "NoDecode" THEN 1
    ELSE Len(imp.schema) - Len(imp.columns_id_without_handle)

\* The restore data of a row: its first n index columns under the ids of the
\* schema, NULL ones in the null set, and one more column (id 9) that no
\* schema asks for.
restore_data(imp, row) ==
    LET n == Len(imp.columns_id_without_handle)
        ids == imp.columns_id_without_handle
        nn == SelectSeq([i \in 1..n |-> [id |-> ids[i], v |-> row.idx[i].v,
                                         tp |-> row.idx[i].tp]],
                        LAMBDA c : c.tp # "Null")
        nl == SelectSeq([i \in 1..n |-> [id |-> ids[i], v |-> row.idx[i].v,
                                         tp |-> row.idx[i].tp]],
                        LAMBDA c : c.tp = "Null")
    IN  write_row(nn \o <<[id |-> 9, v |-> 7, tp |-> "I64"]>>,
                  [i \in 1..Len(nl) |-> nl[i].id])

\* The key of a unique index: the index datums only.
unique_key(imp, row) ==
    encode_index_seek_key(TABLE_ID, INDEX_ID,
        encode_key(SubSeq(row.idx, 1, Len(imp.columns_id_without_handle))))

\* The key of a non-unique index: the index datums, then the handle datums.
non_unique_key(imp, row) ==
    encode_index_seek_key(TABLE_ID, INDEX_ID,
        encode_key(SubSeq(row.idx, 1, Len(imp.columns_id_without_handle))
                   \o SubSeq(row.handle, 1, HandleCount(imp))))

\* The int handle of a row as write_u64 stores it.
int_handle_bytes(row) == write_u64(I64Of(row.handle[1].v))

\* The value prefix of a unique common handle: 0x00 | flag | len | handle.
common_handle_prefix(handle) ==
    <<0, INDEX_VALUE_COMMON_HANDLE_FLAG>> \o write_u16(Len(handle)) \o handle

\* Padding lengths of a non-unique value with restore data (TailLen < 8).
PadLens == {0, 7}

Layouts == {"old_non_unique", "old_unique_int", "old_unique_common",
            "new_non_unique", "new_unique_int", "new_unique_common"}

\* The layouts stored for an index read in this handle mode.
LayoutsOf(imp) ==
    IF imp.decode_handle_strategy = "DecodeCommonHandle"
    THEN {"old_non_unique", "old_unique_common", "new_non_unique", "new_unique_common"}
    ELSE {"old_non_unique", "old_unique_int", "new_non_unique", "new_unique_int"}

\* The pair that stores a row under a layout, as the tests build it.
encode_pair(imp, row, layout, pad) ==
    LET common == encode_key(SubSeq(row.handle, 1, HandleCount(imp)))
        kv == CASE layout = "old_non_unique" ->
                     <<non_unique_key(imp, row), <<>>>>
                [] layout = "old_unique_int" ->
                     <<unique_key(imp, row), int_handle_bytes(row)>>
                [] layout = "old_unique_common" ->
                     <<unique_key(imp, row), common_handle_prefix(common)>>
                [] layout = "new_non_unique" ->
                     <<non_unique_key(imp, row),
                       <<pad>> \o restore_data(imp, row) \o Zeros(pad)>>
                [] layout = "new_unique_int" ->
                     <<unique_key(imp, row),
                       <<8>> \o restore_data(imp, row) \o int_handle_bytes(row)>>
                [] OTHER ->
                     <<unique_key(imp, row),
                       common_handle_prefix(common) \o restore_data(imp, row)>>
    IN  [key |-> kv[1], value |-> kv[2], row |-> row, layout |-> layout,
         pad |-> pad, tag |-> "stored"]

\* The pairs an index of the table holds for this executor.
StoredPairs(imp) ==
    { encode_pair(imp, row, layout, pad) :
        row \in TableRows, layout \in LayoutsOf(imp) \ {"new_non_unique"},
        pad \in {0} }
    \cup { encode_pair(imp, row, "new_non_unique", pad) :
             row \in TableRows, pad \in PadLens }

\* Pairs that are not what an encoder writes: one damaged copy of a stored
\* pair of RowA per error condition of the decode.
damaged(p, key, value, tag) ==
    [p EXCEPT !.key = key, !.value = value, !.tag = tag]

DamagedPairs(imp) ==
    LET n == Len(imp.columns_id_without_handle)
        nu == encode_pair(imp, RowA, "new_non_unique", 0)
        ui == encode_pair(imp, RowA, "new_unique_int", 0)
        old == encode_pair(imp, RowA, "old_non_unique", 0)
        uc == encode_pair(imp, RowA, "old_unique_common", 0)
        short_imp == [imp EXCEPT !.columns_id_without_handle =
                                     SubSeq(@, 1, IF n = 0 THEN 0 ELSE n - 1)]
        two == encode_key(SubSeq(RowA.handle, 1, 2))
    IN  { damaged(old, [old.key EXCEPT ![1] = 0], old.value, "bad_prefix"),
          damaged(nu, nu.key, [nu.value EXCEPT ![1] = Len(nu.value) + 1],
                  "tail_len_exceeds"),
          damaged(nu, nu.key, [nu.value EXCEPT ![1] = Len(nu.value)],
                  "tail_len_is_len"),
          damaged(nu, nu.key, [nu.value EXCEPT ![1] = Len(nu.value) - 1],
                  "tail_len_is_len_minus_1"),
          damaged(uc, uc.key, [uc.value EXCEPT ![4] = @ + 1], "handle_len_exceeds"),
          damaged(nu, [nu.key EXCEPT ![PREFIX_LEN + ID_LEN + 1 + Len(encode_key(
                           SubSeq(RowA.idx, 1, n)))] = 5],
                  nu.value, "bad_handle_flag"),
          damaged(nu, nu.key,
                  <<0>> \o restore_data(short_imp, RowA), "restore_missing_column"),
          damaged(old, unique_key(short_imp, RowA), old.value, "short_key"),
          damaged(ui, ui.key,
                  <<9>> \o restore_data(imp, RowA) \o int_handle_bytes(RowA) \o <<1>>,
                  "tail_len_9"),
          damaged(old, SubSeq(old.key, 1, PREFIX_LEN + 3), old.value, "truncated_key"),
          damaged(uc, uc.key, common_handle_prefix(two), "common_flag_version_0"),
          damaged(uc, uc.key, [common_handle_prefix(two) EXCEPT ![1] = 1],
                  "common_flag_version_1"),
          damaged(uc, uc.key, [common_handle_prefix(two) EXCEPT ![1] = 2],
                  "common_flag_version_2"),
          damaged(uc, uc.key, <<0, INDEX_VALUE_COMMON_HANDLE_FLAG>> \o Zeros(7),
                  "common_flag_len_9"),
          damaged(uc, uc.key, <<0, INDEX_VALUE_COMMON_HANDLE_FLAG>> \o Zeros(8),
                  "common_flag_len_10"),
          damaged(uc, uc.key,
                  common_handle_prefix(
                      encode_value(SubSeq(RowA.handle, 1, HandleCount(imp)))),
                  "short_common_handle"),
          damaged(nu, unique_key(imp, RowA) \o encode_key_datum(DatumU64(-2)),
                  nu.value, "uint_handle_high"),
          damaged(nu, SubSeq(nu.key, 1, Len(nu.key) - 1), nu.value, "handle_cut"),
          damaged(nu, unique_key(imp, RowA), nu.value, "no_handle_in_key") }

\* Every pair handed to process_kv_pair.
Pairs(imp) == StoredPairs(imp) \cup DamagedPairs(imp)

\* ------------------------------------------- the storage and the key ranges

\* Byte strings compare as memcmp does: lexicographically, a proper prefix
\* first.
RECURSIVE KeyLess(_, _)
KeyLess(a, b) ==
    IF b = <<>> THEN FALSE
    ELSE IF a = <<>> THEN TRUE
    ELSE IF a[1] # b[1] THEN a[1] < b[1]
    ELSE KeyLess(Tail(a), Tail(b))

KeyLeq(a, b) == a = b \/ KeyLess(a, b)

\* util::convert_to_prefix_next: the smallest key above every key that has
\* this prefix. The last byte below 0xFF is raised and what follows it is
\* cleared; a key of 0xFF bytes only gets a 0 appended.
RECURSIVE convert_to_prefix_next(_)
convert_to_prefix_next(key) ==
    IF key = <<>> THEN <<0>>
    ELSE IF \A i \in 1..Len(key) : key[i] = 255 THEN Append(key, 0)
    ELSE IF key[Len(key)] < 255 THEN [key EXCEPT ![Len(key)] = @ + 1]
    ELSE Append(convert_to_prefix_next(SubSeq(key, 1, Len(key) - 1)), 0)

\* The IEEE 754 bits of the floats of the index column.
F64_0_3 == <<63, 211, 51, 51, 51, 51, 51, 51>>
F64_5_1 == <<64, 20, 102, 102, 102, 102, 102, 102>>
F64_10_5 == <<64, 37, 0, 0, 0, 0, 0, 0>>

\* The rows of the index: [int index, float index, handle id].
data ==
    LET row(i, f, h) ==
            [idx |-> <<DatumI64(i), DatumF64(f)>>, handle |-> <<DatumI64(h)>>]
    IN  <<row(-5, F64_0_3, 10), row(5, F64_5_1, 5), row(5, F64_10_5, 2)>>

\* The index key of a list of datums.
IndexKey(ds) == encode_index_seek_key(TABLE_ID, INDEX_ID, encode_key(ds))

\* FixtureStorage::from: the pairs ordered by key.
RECURSIVE FixtureStorage(_)
FixtureStorage(kv) ==
    IF kv = {} THEN <<>>
    ELSE LET least == CHOOSE p \in kv : \A q \in kv : KeyLeq(p.key, q.key)
         IN  <<least>> \o FixtureStorage(kv \ {least})

\* A normal index: the handle is the last datum of the key, the value is empty.
normal_store ==
    FixtureStorage({ [key |-> IndexKey(data[i].idx \o data[i].handle),
                      value |-> <<>>, row |-> data[i]] : i \in 1..Len(data) })

\* A unique index: the handle is the value, 8 bytes.
unique_store ==
    FixtureStorage({ [key |-> IndexKey(data[i].idx),
                      value |-> write_u64(I64Of(data[i].handle[1].v)),
                      row |-> data[i]] : i \in 1..Len(data) })

\* A unique index whose second pair lost the last byte of its value.
torn_store ==
    [unique_store EXCEPT ![2].value = SubSeq(@, 1, U64_SIZE - 1)]

Stores == {normal_store, unique_store, torn_store}

\* A KeyRange: start inclusive, end exclusive.
KeyRange(start, end) == [start |-> start, end |-> end]

full_range == KeyRange(IndexKey(<<DatumMin>>), IndexKey(<<DatumMax>>))
range_2_6 == KeyRange(IndexKey(<<DatumI64(2)>>), IndexKey(<<DatumI64(6)>>))
range_below_5 == KeyRange(IndexKey(<<DatumMin>>), IndexKey(<<DatumI64(5)>>))
prefix_range_5 ==
    KeyRange(IndexKey(<<DatumI64(5)>>), convert_to_prefix_next(IndexKey(<<DatumI64(5)>>)))
point_range_5_51 ==
    KeyRange(IndexKey(<<DatumI64(5), DatumF64(F64_5_1)>>),
             convert_to_prefix_next(IndexKey(<<DatumI64(5), DatumF64(F64_5_1)>>)))
point_range_m5_03 ==
    KeyRange(IndexKey(<<DatumI64(-5), DatumF64(F64_0_3)>>),
             convert_to_prefix_next(IndexKey(<<DatumI64(-5), DatumF64(F64_0_3)>>)))
range_above_6 == KeyRange(IndexKey(<<DatumI64(6)>>), IndexKey(<<DatumMax>>))

Ranges ==
    {full_range, range_2_6, range_below_5, prefix_range_5, point_range_5_51,
     point_range_m5_03, range_above_6}

\* The range lists of a request: in key order and not overlapping.
RangeLists ==
    { <<r>> : r \in Ranges }
    \cup { rs \in { <<r1, r2>> : r1 \in Ranges, r2 \in Ranges } :
               KeyLeq(rs[1].end, rs[2].start) }

\* ------------------------------------------------------------ the scan driver

\* A range is a point range: its end is the prefix-next of its start.
is_point(range) == range.end = convert_to_prefix_next(range.start)

\* The order the ranges are visited in: a backward scan takes them last first.
RECURSIVE Reverse(_)
Reverse(s) == IF s = <<>> THEN <<>> ELSE Append(Reverse(Tail(s)), Head(s))

visit_order(key_ranges, is_backward) ==
    IF is_backward THEN Reverse(key_ranges) ELSE key_ranges

\* The scanner: the range it is at (in visit order), whether a scan of that
\* range is open, and the position of the cursor in the storage.
NewScanner == [idx |-> 1, in_range |-> FALSE, pos |-> 0]

\* Storage::begin_scan: the cursor at the first pair of the range, which for
\* a backward scan is the last pair below the end.
begin_scan(storage, range, is_backward) ==
    IF is_backward
    THEN Cardinality({i \in 1..Len(storage) : KeyLess(storage[i].key, range.end)})
    ELSE Cardinality({i \in 1..Len(storage) : KeyLess(storage[i].key, range.start)}) + 1

\* Storage::get: the pair stored at exactly this key, if any.
storage_get(storage, key) == {i \in 1..Len(storage) : storage[i].key = key}

\* RangesScanner::next: the next pair of the ranges, or none when every
\* range is drained. A point range of a scan that accepts point ranges is
\* served by get, any other range by a scan of the storage.
RECURSIVE scanner_next(_, _, _, _, _)
scanner_next(storage, ranges, is_backward, accept_point_range, sc) ==
    IF sc.in_range
    THEN LET range == ranges[sc.idx]
             inside == IF is_backward
                       THEN sc.pos >= 1 /\ KeyLeq(range.start, storage[sc.pos].key)
                       ELSE sc.pos <= Len(storage)
                                /\ KeyLess(storage[sc.pos].key, range.end)
         IN  IF inside
             THEN [some |-> TRUE, at |-> sc.pos,
                   sc |-> [sc EXCEPT !.pos = IF is_backward THEN @ - 1 ELSE @ + 1]]
             ELSE scanner_next(storage, ranges, is_backward, accept_point_range,
                      [idx |-> sc.idx + 1, in_range |-> FALSE, pos |-> 0])
    ELSE IF sc.idx > Len(ranges)
    THEN [some |-> FALSE, at |-> 0, sc |-> sc]
    ELSE LET range == ranges[sc.idx]
         IN  IF accept_point_range /\ is_point(range)
             THEN LET hit == storage_get(storage, range.start)
                      drained == [idx |-> sc.idx + 1, in_range |-> FALSE, pos |-> 0]
                  IN  IF hit # {}
                      THEN [some |-> TRUE, at |-> CHOOSE i \in hit : TRUE,
                            sc |-> drained]
                      ELSE scanner_next(storage, ranges, is_backward,
                               accept_point_range, drained)
             ELSE scanner_next(storage, ranges, is_backward, accept_point_range,
                      [idx |-> sc.idx, in_range |-> TRUE,
                       pos |-> begin_scan(storage, range, is_backward)])

\* LazyBatchColumnVec::truncate_into_equal_length: every column cut to the
\* length of the shortest.
truncate_into_equal_length(columns) ==
    LET lens == {Len(columns[i].rows) : i \in 1..Len(columns)}
        least == CHOOSE n \in lens : \A m \in lens : n <= m
    IN  IF columns = <<>> THEN columns
        ELSE [i \in 1..Len(columns) |->
                 [columns[i] EXCEPT !.rows = SubSeq(@, 1, least)]]

\* fill_column_vec asking the scanner once more after the last row of a full
\* batch, so that a batch that ends with the last pair is reported drained.
RECURSIVE fill_column_vec_probing(_, _, _, _, _, _, _, _, _)
fill_column_vec_probing(imp, storage, ranges, is_backward, accept_point_range, sc, columns, scanned, scan_rows) ==
    LET some_row == scanner_next(storage, ranges, is_backward, accept_point_range, sc)
    IN  IF ~some_row.some
        THEN [is_drained |-> "true", columns |-> columns, sc |-> some_row.sc,
              scanned |-> scanned]
        ELSE IF scan_rows = 0
        THEN [is_drained |-> "false", columns |-> columns, sc |-> sc,
              scanned |-> scanned]
        ELSE LET r == process_kv_pair(imp, storage[some_row.at].key,
                                      storage[some_row.at].value, columns)
             IN  CASE r.res = "Ok" ->
                        fill_column_vec_probing(imp, storage, ranges, is_backward,
                            accept_point_range, some_row.sc, r.columns,
                            Append(scanned, some_row.at), scan_rows - 1)
                   [] r.res = "Err" ->
                        [is_drained |-> "Err",
                         columns |-> truncate_into_equal_length(r.columns),
                         sc |-> some_row.sc, scanned |-> scanned]
                   [] OTHER ->
                        [is_drained |-> "Panic", columns |-> r.columns,
                         sc |-> some_row.sc, scanned |-> scanned]

\* ScanExecutor::fill_column_vec: up to scan_rows pairs are taken from the
\* scanner and decoded; the scan is drained when the scanner has none left.
RECURSIVE fill_column_vec(_, _, _, _, _, _, _, _, _)

\* fill_column_vec after process_kv_pair returned r for the pair some_row:
\* the loop goes on after Ok; an error ends the batch, with the columns cut
\* to equal length.
after_process_kv_pair(r, imp, storage, ranges, is_backward, accept_point_range, some_row, scanned, scan_rows) ==
    CASE r.res = "Ok" ->
           fill_column_vec(imp, storage, ranges, is_backward, accept_point_range,
               some_row.sc, r.columns, Append(scanned, some_row.at), scan_rows - 1)
      [] r.res = "Err" ->
           [is_drained |-> "Err",
            columns |-> truncate_into_equal_length(r.columns),
            sc |-> some_row.sc, scanned |-> scanned]
      [] OTHER ->
           [is_drained |-> "Panic", columns |-> r.columns,
            sc |-> some_row.sc, scanned |-> scanned]

fill_column_vec(imp, storage, ranges, is_backward, accept_point_range, sc, columns, scanned, scan_rows) ==
    IF scan_rows = 0
    THEN [is_drained |-> "false", columns |-> columns, sc |-> sc, scanned |-> scanned]
    ELSE LET some_row == scanner_next(storage, ranges, is_backward,
                                      accept_point_range, sc)
         IN  IF ~some_row.some
             THEN [is_drained |-> "true", columns |-> columns, sc |-> some_row.sc,
                   scanned |-> scanned]
             ELSE after_process_kv_pair(
                      process_kv_pair(imp, storage[some_row.at].key,
                                      storage[some_row.at].value, columns),
                      imp, storage, ranges, is_backward, accept_point_range,
                      some_row, scanned, scan_rows)

\* ScanExecutor::next_batch: a new column vector, filled with up to
\* scan_rows rows.
next_batch(imp, storage, ranges, is_backward, accept_point_range, sc, scan_rows) ==
    LET built == build_column_vec(imp)
    IN  IF ~IsOk(built)
        THEN [is_drained |-> "Panic", columns |-> <<>>, sc |-> sc, scanned |-> <<>>]
        ELSE fill_column_vec(imp, storage, ranges, is_backward, accept_point_range,
                             sc, built.val, <<>>, scan_rows)

\* ------------------------------------------------------- tikv_util::trace

\* A u64 and a u32 by their bytes, most significant first.
U64_MAX == <<255, 255, 255, 255, 255, 255, 255, 255>>
U32_MAX == <<255, 255, 255, 255>>
U32Of(n) == <<0, 0, n \div 256, n % 256>>

\* minitrace::Link and minitrace::Span
LinkRoot == [kind |-> "Root", id |-> I64Of(0)]
LinkParent(id) == [kind |-> "Parent", id |-> id]
LinkContinue(id) == [kind |-> "Continue", id |-> id]

Span(id, link, begin_cycles, elapsed_cycles, event) ==
    [id |-> id, link |-> link, begin_cycles |-> begin_cycles,
     elapsed_cycles |-> elapsed_cycles, event |-> event]

\* minitrace::SpanSet
SpanSet(create_time_ns, start_time_ns, spans) ==
    [create_time_ns |-> create_time_ns, start_time_ns |-> start_time_ns,
     spans |-> spans]

\* The two builds of the protobuf types.
Codecs == {"prost-codec", "protobuf-codec"}

\* spanpb::Link: which field of the oneof is set, and the id it carries (a
\* Root carries none). With prost the message itself is optional.
pb_link(codec, link) ==
    LET oneof == [which |-> link.kind,
                  id |-> IF link.kind = "Root" THEN I64Of(0) ELSE link.id]
    IN  [some |-> TRUE, link |-> oneof]

\* encode_spans writing begin_cycles into end_cycles too.
encode_span_end_from_begin(codec, span) ==
    [id |-> span.id, begin_cycles |-> span.begin_cycles,
     end_cycles |-> span.begin_cycles, event |-> span.event,
     link |-> pb_link(codec, span.link)]

\* encode_spans, one span: the closure of the inner map.
encode_span(codec, span) ==
    [id |-> span.id, begin_cycles |-> span.begin_cycles,
     end_cycles |-> span.elapsed_cycles, event |-> span.event,
     link |-> pb_link(codec, span.link)]

\* encode_spans
encode_spans(codec, span_sets) ==
    [k \in 1..Len(span_sets) |->
        [create_time_ns |-> span_sets[k].create_time_ns,
         start_time_ns |-> span_sets[k].start_time_ns,
         spans |-> [i \in 1..Len(span_sets[k].spans) |->
                       encode_span(codec, span_sets[k].spans[i])]]]

\* decode_spans, the link of one span: Root, Parent or Continue, and a panic
\* when the message holds none of them.
decode_link(codec, link) ==
    IF ~link.some THEN Panic("Link should not be none from spanpb")
    ELSE CASE link.link.which = "Root" -> Ok(LinkRoot)
           [] link.link.which = "Parent" -> Ok(LinkParent(link.link.id))
           [] link.link.which = "Continue" -> Ok(LinkContinue(link.link.id))
           [] OTHER ->
                IF codec = "prost-codec"
                THEN Panic("Link should not be none from spanpb")
                ELSE Panic("Link must be one of root, parent or continue")

\* decode_spans, one span.
decode_span(codec, span) ==
    LET link == decode_link(codec, span.link)
    IN  IF ~IsOk(link) THEN link
        ELSE Ok(Span(span.id, link.val, span.begin_cycles, span.end_cycles,
                     span.event))

\* decode_spans: the span sets, or the panic of the first span that has one.
decode_spans(codec, span_sets) ==
    LET decoded == [k \in 1..Len(span_sets) |->
                       [i \in 1..Len(span_sets[k].spans) |->
                           decode_span(codec, span_sets[k].spans[i])]]
        panics == {<<k, i>> \in (1..Len(span_sets)) \X (1..MaxSpans + 1) :
                      i <= Len(decoded[k]) /\ ~IsOk(decoded[k][i])}
    IN  IF panics # {}
        THEN LET first == CHOOSE p \in panics :
                              \A q \in panics :
                                  p[1] < q[1] \/ (p[1] = q[1] /\ p[2] <= q[2])
             IN  decoded[first[1]][first[2]]
        ELSE Ok([k \in 1..Len(span_sets) |->
                    SpanSet(span_sets[k].create_time_ns, span_sets[k].start_time_ns,
                            [i \in 1..Len(decoded[k]) |-> decoded[k][i].val])])

\* The spans of the inputs: those of test_encode_spans.
Spans ==
    { Span(I64Of(0), LinkRoot, I64Of(0), I64Of(10), U32Of(0)),
      Span(I64Of(2), LinkContinue(I64Of(0)), I64Of(10), I64Of(20), U32Of(2)),
      Span(U64_MAX, LinkParent(U64_MAX), U64_MAX, U64_MAX, U32_MAX),
      Span(U64_MAX, LinkContinue(U64_MAX), U64_MAX, U64_MAX, U32_MAX) }

\* Lists of at most n elements of S.
RECURSIVE SeqsUpTo(_, _)
SeqsUpTo(S, n) ==
    IF n = 0 THEN {<<>>}
    ELSE LET shorter == SeqsUpTo(S, n - 1)
         IN  shorter \cup {Append(s, x) : s \in shorter, x \in S}

\* The span sets of the inputs, and the lists of them.
SpanSets ==
    { SpanSet(t[1], t[2], spans) :
        t \in {<<I64Of(0), I64Of(1)>>, <<U64_MAX, U64_MAX>>},
        spans \in SeqsUpTo(Spans, MaxSpans) }

SpanSetLists == SeqsUpTo(SpanSets, 2)

\* ------------------------------------------------------ the raftstore router

\* The messages a mailbox takes before try_send reports it full.
MailboxCap == 2

\* The most messages a mailbox holds here: a forced send goes past the capacity.
MaxMailboxLen == MailboxCap + 1

Regions == {1, 2}

StoreIds == {1}

\* A mailbox: "none" (the router knows none for the address), "open" with the
\* number of messages waiting in it, or "closed" (its receiver is gone).
Mailbox(state, len) == [state |-> state, len |-> len]

NoMailbox == Mailbox("none", 0)

\* RaftRouter: the mailbox of every region and the control mailbox of the store.
RaftRouter(normals, control) == [normals |-> normals, control |-> control]

\* crossbeam's TrySendError and SendError; the message they give back is dropped.
Full == "Full"

Disconnected == "Disconnected"

SendError == "SendError"

\* RaftStoreError::Transport(reason) and RaftStoreError::RegionNotFound(region_id)
Transport(reason) == <<"Transport", reason>>

RegionNotFound(region_id) == <<"RegionNotFound", region_id>>

\* What a call on the router gives: its result and the router afterwards.
Sent(result, router) == [result |-> result, router |-> router]

\* BasicMailbox::try_send
mailbox_try_send(mb) ==
    IF mb.state # "open" THEN [result |-> Err(Disconnected), mailbox |-> mb]
    ELSE IF mb.len >= MailboxCap THEN [result |-> Err(Full), mailbox |-> mb]
    ELSE [result |-> Ok(<<>>), mailbox |-> Mailbox("open", mb.len + 1)]

\* BasicMailbox::force_send
mailbox_force_send(mb) ==
    IF mb.state # "open" THEN [result |-> Err(SendError), mailbox |-> mb]
    ELSE [result |-> Ok(<<>>), mailbox |-> Mailbox("open", mb.len + 1)]

\* Router::send(addr, msg): a region without a mailbox is disconnected.
router_send(router, addr) ==
    LET mb == router.normals[addr]
        r == mailbox_try_send(mb)
    IN  Sent(r.result, [router EXCEPT !.normals[addr] = r.mailbox])

\* Router::force_send(addr, msg)
force_send(router, addr) ==
    LET mb == router.normals[addr]
        r == mailbox_force_send(mb)
    IN  Sent(r.result, [router EXCEPT !.normals[addr] = r.mailbox])

\* Router::send_control(msg)
send_control(router) ==
    LET r == mailbox_try_send(router.control)
    IN  Sent(r.result, [router EXCEPT !.control = r.mailbox])

\* RaftRouter::send_raft_message(msg): to the mailbox of the region of the
\* message, and to the store when the router knows no mailbox for the region.
send_raft_message(router, msg) ==
    IF router.normals[msg.region_id].state = "none"
    THEN send_control(router)
    ELSE router_send(router, msg.region_id)

\* RaftRouter::send_raft_command(cmd): to the region of the request's header.
send_raft_command(router, cmd) == router_send(router, cmd.request.header.region_id)

\* RaftMessage, RaftCmdRequest and RaftCommand, as far as the router reads them.
RaftMessage(region_id) == [region_id |-> region_id]

RaftCmdRequest(region_id) == [header |-> [region_id |-> region_id]]

RaftCommand(req) == [request |-> req]

\* ServerRaftStoreRouter::send_store
send_store(router, msg) ==
    LET r == send_control(router)
    IN  IF IsOk(r.result) THEN r
        ELSE Sent(Err(Transport(IF r.result.msg = Full THEN Full ELSE Disconnected)),
                  r.router)

handle_send_error_disconnected(region_id, e) ==
    IF e = Full THEN Transport(Full) ELSE Transport(Disconnected)

\* handle_send_error(region_id, e)
handle_send_error(region_id, e) ==
    IF e = Full THEN Transport(Full) ELSE RegionNotFound(region_id)

\* .map_err(|e| handle_send_error(region_id, e))
map_handle_send_error(region_id, r) ==
    IF IsOk(r.result) THEN r
    ELSE Sent(Err(handle_send_error(region_id, r.result.msg)), r.router)

\* ServerRaftStoreRouter::send_raft_msg
send_raft_msg(router, msg) ==
    LET region_id == msg.region_id
    IN  map_handle_send_error(region_id, send_raft_message(router, msg))

\* ServerRaftStoreRouter::send_command
send_command(router, req) ==
    LET cmd == RaftCommand(req)
        region_id == cmd.request.header.region_id
    IN  map_handle_send_error(region_id, send_raft_command(router, cmd))

\* ServerRaftStoreRouter::send_command_txn_extra
send_command_txn_extra(router, req) ==
    LET cmd == RaftCommand(req)
        region_id == cmd.request.header.region_id
    IN  map_handle_send_error(region_id, send_raft_command(router, cmd))

significant_send_by_try_send(router, region_id) ==
    LET r == router_send(router, region_id)
    IN  IF IsOk(r.result) THEN r
        ELSE Sent(Err(IF r.result.msg = Full THEN Transport(Full)
                      ELSE RegionNotFound(region_id)), r.router)

\* ServerRaftStoreRouter::significant_send
significant_send(router, region_id) ==
    LET r == force_send(router, region_id)
    IN  IF r.result = Err(SendError)
        THEN Sent(Err(RegionNotFound(region_id)), r.router)
        ELSE Sent(Ok(<<>>), r.router)

\* RaftStoreRouter::report_unreachable
report_unreachable(router, region_id) == significant_send(router, region_id)

\* RaftStoreRouter::report_snapshot_status
report_snapshot_status(router, region_id) == significant_send(router, region_id)

\* ServerRaftStoreRouter::casual_send
casual_send(router, region_id) ==
    map_handle_send_error(region_id, router_send(router, region_id))

\* ServerRaftStoreRouter::broadcast_unreachable: the result of the send is let go.
broadcast_unreachable(router, store_id) ==
    LET r == send_control(router)
    IN  Sent(<<>>, r.router)

\* ------------------------------------------------------- the tracing config

\* The longest agent address tried.
MaxAddrLen == 3

\* The most report threads tried.
MaxReportThreads == 2

\* The largest span limit tried, beside the default one.
MaxSpansMaxLength == 2

\* The characters an address is written with: a letter, the colon, two digits.
AddrChars == {"h", ":", "0", "1"}

Addrs == SeqsUpTo(AddrChars, MaxAddrLen)

\* Config of tikv_util::tracing; the duration is in milliseconds.
Config(agent, threads, threshold, max_length) ==
    [jaeger_thrift_compact_agent |-> agent, num_report_threads |-> threads,
     duration_threshold |-> threshold, spans_max_length |-> max_length]

\* Config::default()
Config_default == Config(<<>>, 1, 100, 1000)

Configs ==
    { Config(a, t, d, m) :
        a \in Addrs, t \in 0..MaxReportThreads,
        d \in {0, Config_default.duration_threshold},
        m \in 0..MaxSpansMaxLength \cup {Config_default.spans_max_length} }

RECURSIVE split_colon(_, _, _)
\* addr.split(':').filter(|s| !s.is_empty()).collect()
split_colon(s, cur, parts) ==
    IF s = <<>> THEN (IF cur = <<>> THEN parts ELSE Append(parts, cur))
    ELSE IF Head(s) = ":"
         THEN split_colon(Tail(s), <<>>, IF cur = <<>> THEN parts ELSE Append(parts, cur))
         ELSE split_colon(Tail(s), Append(cur, Head(s)), parts)

\* The value of a decimal digit, and -1 for any other character.
DigitValue(c) == CASE c = "0" -> 0 [] c = "1" -> 1 [] OTHER -> -1

RECURSIVE parse_digits(_, _)
parse_digits(s, acc) ==
    IF s = <<>> THEN Ok(acc)
    ELSE IF DigitValue(Head(s)) < 0 THEN Err("InvalidDigit")
    ELSE IF acc * 10 + DigitValue(Head(s)) > 65535 THEN Err("PosOverflow")
    ELSE parse_digits(Tail(s), acc * 10 + DigitValue(Head(s)))

\* str::parse::<u16>()
parse_u16(s) == IF s = <<>> THEN Err("Empty") ELSE parse_digits(s, 0)

\* tikv_util::config::check_addr: "host:port" with a port that is a number
\* other than 0. No address written with AddrChars is an "ip:port" literal.
check_addr(addr) ==
    LET parts == split_colon(addr, <<>>, <<>>)
    IN  IF Len(parts) # 2 THEN Err("invalid addr")
        ELSE IF ~IsOk(parse_u16(parts[2])) THEN Err("invalid addr, parse port failed")
        ELSE IF parse_u16(parts[2]).val = 0 THEN Err("invalid addr, port can not be 0")
        ELSE Ok(<<>>)

validate_agent_or_not(self) ==
    IF ~IsOk(check_addr(self.jaeger_thrift_compact_agent))
    THEN check_addr(self.jaeger_thrift_compact_agent)
    ELSE IF self.num_report_threads = 0 THEN Err("tracing.num_threads cannot be 0")
    ELSE IF self.spans_max_length = 0 THEN Err("tracing.spans_max_length cannot be 0")
    ELSE Ok(<<>>)

\* Config::validate
validate(self) ==
    IF self.jaeger_thrift_compact_agent # <<>>
    THEN IF ~IsOk(check_addr(self.jaeger_thrift_compact_agent))
         THEN check_addr(self.jaeger_thrift_compact_agent)
         ELSE IF self.num_report_threads = 0
              THEN Err("tracing.num_threads cannot be 0")
              ELSE IF self.spans_max_length = 0
                   THEN Err("tracing.spans_max_length cannot be 0")
                   ELSE Ok(<<>>)
    ELSE Ok(<<>>)

\* ------------------------------------------------------------ the machine

VARIABLES
    pc,                      \* "start", "constructed", "ready", "rejected",
                             \* "failed" (a call returned Err), "aborted"
    columns_info,            \* the arguments of new
    primary_column_ids_len,
    new_result,              \* "none", "Ok", "Err" or "Panic" of new
    imp,                     \* the IndexScanExecutorImpl of the executor
    columns,                 \* the LazyBatchColumnVec being filled
    calls,                   \* process_kv_pair calls made so far
    last                     \* the last process_kv_pair call

\* The scan: the arguments of new that the driver keeps, and its state.
VARIABLES
    storage,                 \* the pairs of the storage, in key order
    key_ranges,              \* the ranges of the request, as given
    is_backward,
    unique,                  \* the argument `unique` of new
    accept_point_range,      \* the option the driver is built with
    scanner,                 \* the position of the scanner in the ranges
    is_ended,                \* a batch was drained or failed
    batches                  \* the results of the next_batch calls so far

scan_vars == <<storage, key_ranges, is_backward, unique, accept_point_range,
               scanner, is_ended, batches>>

\* The spans handed to encode_spans and what becomes of them.
VARIABLES
    trace_pc,                \* "idle", "raw", "encoded", "decoded", "aborted"
    codec,                   \* the build of the protobuf types
    raw_span_sets,           \* the argument of encode_spans
    spanpb_set_vec,          \* its result, the argument of decode_spans
    encode_and_decode        \* the result of decode_spans

trace_vars == <<trace_pc, codec, raw_span_sets, spanpb_set_vec, encode_and_decode>>

\* The router of the store and the last call made on it.
VARIABLES
    router,                  \* the RaftRouter behind the ServerRaftStoreRouter
    router_last              \* the last call: its name, argument, result and
                             \* the router before and after it

router_vars == <<router, router_last>>

\* The tracing config of the process and what validate said of it.
VARIABLES
    config,
    validate_result          \* NotValidated before validate is called

config_vars == <<config, validate_result>>

index_vars == <<pc, columns_info, primary_column_ids_len, new_result, imp, columns,
                calls, last>>

vars == <<pc, columns_info, primary_column_ids_len, new_result, imp, columns,
          calls, last, scan_vars, trace_vars, router_vars, config_vars>>

NoPair ==
    [key |-> <<>>, value |-> <<>>, row |-> RowA, layout |-> "none", pad |-> 0,
     tag |-> "none"]

NoCall ==
    [called |-> FALSE, pair |-> NoPair, before |-> <<>>, res |-> "none",
     msg |-> <<"", 0>>, loc |-> NoLoc]

\* No executor is built yet.
NoExecutor ==
    /\ pc = "start"
    /\ columns_info = <<>>
    /\ primary_column_ids_len = 0
    /\ new_result = "none"
    /\ imp = NoImp
    /\ columns = <<>>
    /\ calls = 0
    /\ last = NoCall
    /\ storage = <<>>
    /\ key_ranges = <<>>
    /\ is_backward = FALSE
    /\ unique = FALSE
    /\ accept_point_range = FALSE
    /\ scanner = NewScanner
    /\ is_ended = FALSE
    /\ batches = <<>>

\* No spans are at hand.
NoSpans ==
    /\ trace_pc = "idle"
    /\ codec = "protobuf-codec"
    /\ raw_span_sets = <<>>
    /\ spanpb_set_vec = <<>>
    /\ encode_and_decode = <<>>

NoRouterCall ==
    [op |-> "none", arg |-> 0, result |-> <<>>, before |-> <<>>, after |-> <<>>]

\* The router of a store that has no region yet.
NewRouter ==
    /\ router = RaftRouter([r \in Regions |-> NoMailbox], Mailbox("open", 0))
    /\ router_last = NoRouterCall

\* validate was not called.
NotValidated == [res |-> "none"]

\* The config nothing was loaded into.
DefaultConfig ==
    /\ config = Config_default
    /\ validate_result = NotValidated

Init == NoExecutor /\ NoSpans /\ NewRouter /\ DefaultConfig

\* BatchIndexScanExecutor::new(columns_info, primary_column_ids_len)
New(ci, pcl) ==
    /\ pc = "start"
    /\ LET r == new(ci, pcl)
       IN  /\ new_result' = r.res
           /\ imp' = IF IsOk(r) THEN r.val ELSE NoImp
           /\ pc' = CASE r.res = "Ok" -> "constructed"
                      [] r.res = "Err" -> "rejected"
                      [] OTHER -> "aborted"
    /\ columns_info' = ci
    /\ primary_column_ids_len' = pcl
    /\ UNCHANGED <<columns, calls, last, scan_vars, trace_vars, router_vars, config_vars>>

\* build_column_vec at the start of a batch
BuildColumnVec ==
    /\ pc = "constructed"
    /\ LET r == build_column_vec(imp)
       IN  /\ columns' = IF IsOk(r) THEN r.val ELSE <<>>
           /\ pc' = IF IsOk(r) THEN "ready" ELSE "aborted"
    /\ UNCHANGED <<columns_info, primary_column_ids_len, new_result, imp, calls, last,
                   scan_vars, trace_vars, router_vars, config_vars>>

\* process_kv_pair giving up its handle strategy when a pair fails to decode.
ProcessKvPairForgetsOnError(p) ==
    /\ pc = "ready"
    /\ calls < MaxCalls
    /\ LET r == process_kv_pair(imp, p.key, p.value, columns)
       IN  /\ columns' = r.columns
           /\ last' = [called |-> TRUE, pair |-> p, before |-> columns,
                       res |-> r.res, msg |-> r.msg, loc |-> r.loc]
           /\ pc' = CASE r.res = "Ok" -> "ready"
                      [] r.res = "Err" -> "failed"
                      [] OTHER -> "aborted"
           /\ imp' = IF r.res = "Ok" THEN imp
                     ELSE [imp EXCEPT !.decode_handle_strategy = "NoDecode"]
    /\ calls' = calls + 1
    /\ UNCHANGED <<columns_info, primary_column_ids_len, new_result, scan_vars,
                   trace_vars, router_vars, config_vars>>

\* process_kv_pair(key, value, columns) on one pair of the storage
ProcessKvPair(p) ==
    /\ pc = "ready"
    /\ calls < MaxCalls
    /\ LET r == process_kv_pair(imp, p.key, p.value, columns)
       IN  /\ columns' = r.columns
           /\ last' = [called |-> TRUE, pair |-> p, before |-> columns,
                       res |-> r.res, msg |-> r.msg, loc |-> r.loc]
           /\ pc' = CASE r.res = "Ok" -> "ready"
                      [] r.res = "Err" -> "failed"
                      [] OTHER -> "aborted"
    /\ calls' = calls + 1
    /\ UNCHANGED <<columns_info, primary_column_ids_len, new_result, imp, scan_vars,
                   trace_vars, router_vars, config_vars>>

Next ==
    \/ \E ci \in Schemas, pcl \in 0..MaxPrimaryLen : New(ci, pcl)
    \/ BuildColumnVec
    \/ \E p \in (IF pc = "ready" THEN Pairs(imp) ELSE {}) : ProcessKvPair(p)

Spec == Init /\ [][Next]_vars

\* The schemas the scans are made with: (int, float) and (int, float, handle).
ScanSchemas ==
    { <<ColumnInfo(1, FALSE), ColumnInfo(2, FALSE)>>,
      <<ColumnInfo(1, FALSE), ColumnInfo(2, FALSE), ColumnInfo(3, TRUE)>> }

\* new building the driver to accept point ranges whatever `unique` is.
ScanNewAcceptsPoints(ci, pcl, st, rs, bw, uq) ==
    /\ pc = "start"
    /\ LET r == new(ci, pcl)
       IN  /\ new_result' = r.res
           /\ imp' = IF IsOk(r) THEN r.val ELSE NoImp
           /\ pc' = CASE r.res = "Ok" -> "scanning"
                      [] r.res = "Err" -> "rejected"
                      [] OTHER -> "aborted"
    /\ columns_info' = ci
    /\ primary_column_ids_len' = pcl
    /\ storage' = st
    /\ key_ranges' = rs
    /\ is_backward' = bw
    /\ unique' = uq
    /\ accept_point_range' = TRUE
    /\ scanner' = NewScanner
    /\ UNCHANGED <<columns, calls, last, is_ended, batches, trace_vars, router_vars, config_vars>>

\* BatchIndexScanExecutor::new with its storage, ranges, direction and
\* `unique`; the scanner starts before the first range.
ScanNew(ci, pcl, st, rs, bw, uq) ==
    /\ pc = "start"
    /\ LET r == new(ci, pcl)
       IN  /\ new_result' = r.res
           /\ imp' = IF IsOk(r) THEN r.val ELSE NoImp
           /\ pc' = CASE r.res = "Ok" -> "scanning"
                      [] r.res = "Err" -> "rejected"
                      [] OTHER -> "aborted"
    /\ columns_info' = ci
    /\ primary_column_ids_len' = pcl
    /\ storage' = st
    /\ key_ranges' = rs
    /\ is_backward' = bw
    /\ unique' = uq
    /\ accept_point_range' = uq
    /\ scanner' = NewScanner
    /\ UNCHANGED <<columns, calls, last, is_ended, batches, trace_vars, router_vars, config_vars>>

\* next_batch losing the position of the scanner: every call scans the
\* ranges from their start.
NextBatchFromStart(scan_rows) ==
    /\ pc = "scanning"
    /\ ~is_ended
    /\ LET r == next_batch(imp, storage, visit_order(key_ranges, is_backward),
                           is_backward, accept_point_range, NewScanner, scan_rows)
       IN  /\ batches' = Append(batches,
                              [physical_columns |-> r.columns,
                               is_drained |-> r.is_drained,
                               scan_rows |-> scan_rows,
                               scanned |-> r.scanned])
           /\ scanner' = r.sc
           /\ is_ended' = (r.is_drained \in {"true", "Err"})
           /\ pc' = IF r.is_drained = "Panic" THEN "aborted" ELSE "scanning"
    /\ UNCHANGED <<columns_info, primary_column_ids_len, new_result, imp, columns,
                   calls, last, storage, key_ranges, is_backward, unique,
                   accept_point_range, trace_vars, router_vars, config_vars>>

\* BatchIndexScanExecutor::next_batch(scan_rows)
NextBatch(scan_rows) ==
    /\ pc = "scanning"
    /\ ~is_ended
    /\ \E r \in {next_batch(imp, storage, visit_order(key_ranges, is_backward),
                             is_backward, accept_point_range, scanner, scan_rows)} :
           /\ batches' = Append(batches,
                              [physical_columns |-> r.columns,
                               is_drained |-> r.is_drained,
                               scan_rows |-> scan_rows,
                               scanned |-> r.scanned])
           /\ scanner' = r.sc
           /\ is_ended' = (r.is_drained \in {"true", "Err"})
           /\ pc' = IF r.is_drained = "Panic" THEN "aborted" ELSE "scanning"
    /\ UNCHANGED <<columns_info, primary_column_ids_len, new_result, imp, columns,
                   calls, last, storage, key_ranges, is_backward, unique,
                   accept_point_range, trace_vars, router_vars, config_vars>>

ScanNext ==
    \/ \E ci \in (IF pc = "start" THEN ScanSchemas ELSE {}), pcl \in {0, 1},
          st \in Stores, rs \in RangeLists, bw \in BOOLEAN, uq \in BOOLEAN :
              ScanNew(ci, pcl, st, rs, bw, uq)
    \/ \E n \in 1..MaxScanRows : NextBatch(n)

ScanSpec == Init /\ [][ScanNext]_vars

\* test_encode_spans: a list of span sets and a build.
TraceInit ==
    /\ NoExecutor
    /\ NewRouter
    /\ DefaultConfig
    /\ trace_pc = "raw"
    /\ codec \in Codecs
    /\ raw_span_sets \in SpanSetLists
    /\ spanpb_set_vec = <<>>
    /\ encode_and_decode = <<>>

\* encode_spans(raw_span_set).collect()
EncodeSpans ==
    /\ trace_pc = "raw"
    /\ spanpb_set_vec' = encode_spans(codec, raw_span_sets)
    /\ trace_pc' = "encoded"
    /\ UNCHANGED <<pc, columns_info, primary_column_ids_len, new_result, imp, columns,
                   calls, last, scan_vars, router_vars, config_vars, codec, raw_span_sets, encode_and_decode>>

\* decode_spans(spanpb_set_vec).collect()
DecodeSpans ==
    /\ trace_pc = "encoded"
    /\ LET r == decode_spans(codec, spanpb_set_vec)
       IN  /\ encode_and_decode' = IF IsOk(r) THEN r.val ELSE <<>>
           /\ trace_pc' = IF IsOk(r) THEN "decoded" ELSE "aborted"
    /\ UNCHANGED <<pc, columns_info, primary_column_ids_len, new_result, imp, columns,
                   calls, last, scan_vars, router_vars, config_vars, codec, raw_span_sets, spanpb_set_vec>>

TraceNext == EncodeSpans \/ DecodeSpans

TraceSpec == TraceInit /\ [][TraceNext]_vars

\* A call on the router: the router it leaves and what it returned.
RouterCall(op, arg, r) ==
    /\ router' = r.router
    /\ router_last' = [op |-> op, arg |-> arg, result |-> r.result, before |-> router,
                       after |-> r.router]
    /\ UNCHANGED <<index_vars, scan_vars, trace_vars, config_vars>>

\* The router takes no more than MaxMailboxLen messages for a region.
HasRoom(region_id) == router.normals[region_id].len < MaxMailboxLen

SendRaftMsg(msg) ==
    \E r \in {send_raft_msg(router, msg)} : RouterCall("send_raft_msg", msg, r)

SendCommand(req) ==
    \E r \in {send_command(router, req)} : RouterCall("send_command", req, r)

SendCommandTxnExtra(req) ==
    \E r \in {send_command_txn_extra(router, req)} :
        RouterCall("send_command_txn_extra", req, r)

CasualSend(region_id) ==
    \E r \in {casual_send(router, region_id)} : RouterCall("casual_send", region_id, r)

SignificantSend(region_id) ==
    /\ HasRoom(region_id)
    /\ \E r \in {significant_send(router, region_id)} :
           RouterCall("significant_send", region_id, r)

ReportUnreachable(region_id) ==
    /\ HasRoom(region_id)
    /\ \E r \in {report_unreachable(router, region_id)} :
           RouterCall("report_unreachable", region_id, r)

ReportSnapshotStatus(region_id) ==
    /\ HasRoom(region_id)
    /\ \E r \in {report_snapshot_status(router, region_id)} :
           RouterCall("report_snapshot_status", region_id, r)

SendStore ==
    \E r \in {send_store(router, <<>>)} : RouterCall("send_store", 0, r)

BroadcastUnreachable(store_id) ==
    \E r \in {broadcast_unreachable(router, store_id)} :
        RouterCall("broadcast_unreachable", store_id, r)

\* The store: it creates a peer and registers its mailbox, a peer takes a
\* message off its mailbox, a peer is destroyed and its mailbox closed, the
\* router forgets a closed mailbox; the store takes a message off the control
\* mailbox, the store stops.
RouterStep(r) ==
    /\ router' = r
    /\ UNCHANGED <<router_last, index_vars, scan_vars, trace_vars, config_vars>>

Register(region_id) ==
    /\ router.normals[region_id].state = "none"
    /\ RouterStep([router EXCEPT !.normals[region_id] = Mailbox("open", 0)])

PeerPoll(region_id) ==
    /\ router.normals[region_id].state = "open"
    /\ router.normals[region_id].len > 0
    /\ RouterStep([router EXCEPT !.normals[region_id].len = @ - 1])

PeerDestroy(region_id) ==
    /\ router.normals[region_id].state = "open"
    /\ RouterStep([router EXCEPT !.normals[region_id] = Mailbox("closed", 0)])

Forget(region_id) ==
    /\ router.normals[region_id].state = "closed"
    /\ RouterStep([router EXCEPT !.normals[region_id] = NoMailbox])

StorePoll ==
    /\ router.control.state = "open"
    /\ router.control.len > 0
    /\ RouterStep([router EXCEPT !.control.len = @ - 1])

StoreStop ==
    /\ router.control.state = "open"
    /\ RouterStep([router EXCEPT !.control = Mailbox("closed", 0)])

RouterNext ==
    \/ \E region_id \in Regions : SendRaftMsg(RaftMessage(region_id))
    \/ \E region_id \in Regions : SendCommand(RaftCmdRequest(region_id))
    \/ \E region_id \in Regions : SendCommandTxnExtra(RaftCmdRequest(region_id))
    \/ \E region_id \in Regions : CasualSend(region_id)
    \/ \E region_id \in Regions : SignificantSend(region_id)
    \/ \E region_id \in Regions : ReportUnreachable(region_id)
    \/ \E region_id \in Regions : ReportSnapshotStatus(region_id)
    \/ SendStore
    \/ \E store_id \in StoreIds : BroadcastUnreachable(store_id)
    \/ \E region_id \in Regions : Register(region_id)
    \/ \E region_id \in Regions : PeerPoll(region_id)
    \/ \E region_id \in Regions : PeerDestroy(region_id)
    \/ \E region_id \in Regions : Forget(region_id)
    \/ StorePoll
    \/ StoreStop

RouterSpec == Init /\ [][RouterNext]_vars

\* A config was loaded: any of Configs, the default one among them.
ConfigInit ==
    /\ NoExecutor
    /\ NoSpans
    /\ NewRouter
    /\ config \in Configs
    /\ validate_result = NotValidated

\* config.validate()
Validate ==
    /\ validate_result = NotValidated
    /\ validate_result' = validate(config)
    /\ UNCHANGED <<config, index_vars, scan_vars, trace_vars, router_vars>>

ConfigNext == Validate

ConfigSpec == ConfigInit /\ [][ConfigNext]_vars

\* ----------------------------------------------------------------- properties

\* The pk_handle flag of the last column handed to new.
LastIsPkHandle ==
    columns_info # <<>> /\ columns_info[Len(columns_info)].pk_handle

\* The number of handle columns the arguments of new ask for.
RequestedHandleCount ==
    IF primary_column_ids_len > 0 THEN primary_column_ids_len
    ELSE IF LastIsPkHandle THEN 1 ELSE 0

\* No executor exists and nothing was scanned.
NothingBuilt ==
    /\ imp = NoImp
    /\ columns = <<>>
    /\ calls = 0
    /\ ~last.called

\* C1: new returns an error, and no executor, whenever the last column is
\* flagged pk_handle and primary_column_ids_len > 0; nothing is scanned
\* before the rejection.
C1_RejectsBothHandles ==
    (pc # "start" /\ LastIsPkHandle /\ primary_column_ids_len > 0)
        => (new_result = "Err" /\ pc = "rejected" /\ NothingBuilt)

C1_Witness ==
    /\ pc = "rejected"
    /\ LastIsPkHandle
    /\ primary_column_ids_len > 0
    /\ primary_column_ids_len <= Len(columns_info)

\* C2: new returns an error whenever the number of handle columns exceeds the
\* number of schema columns; the index-column prefix is never taken with a
\* negative length (new never aborts), and an accepted executor has
\* len - handle_column_cnt index columns.
C2_RejectsTooManyHandleColumns ==
    pc # "start" =>
        /\ new_result # "Panic"
        /\ RequestedHandleCount > Len(columns_info)
               => (new_result = "Err" /\ pc = "rejected" /\ NothingBuilt)
        /\ new_result = "Ok"
               => /\ RequestedHandleCount <= Len(columns_info)
                  /\ Len(imp.columns_id_without_handle)
                         = Len(columns_info) - RequestedHandleCount

C2_Witness ==
    /\ pc = "rejected"
    /\ ~LastIsPkHandle
    /\ primary_column_ids_len = Len(columns_info) + 1

\* The number of rows column i gained in the last call.
Gained(i) == Len(columns[i].rows) - Len(last.before[i].rows)

\* The integer a column's newest row holds: a decoded column holds it, a raw
\* column holds the datum that decodes to it.
NewestLogical(cols, i) ==
    LET v == cols[i].rows[Len(cols[i].rows)]
    IN  IF cols[i].kind = "decoded" THEN v ELSE RawLogical(v)

\* The newest row of a column vector, one integer per column.
NewestRow(cols) == [i \in 1..Len(cols) |-> NewestLogical(cols, i)]

\* The row the last call appended.
AppendedRow == NewestRow(columns)

\* The column values and handle a stored pair was built from, in schema order.
ExpectedRow(row) ==
    LET n == Len(imp.columns_id_without_handle)
    IN  [i \in 1..Len(imp.schema) |->
            IF i <= n THEN DatumLogical(row.idx[i])
            ELSE DatumLogical(row.handle[i - n])]

\* The last call decoded its pair into exactly one more row per column.
AppendedOneRow ==
    /\ last.res = "Ok"
    /\ Len(columns) = Len(imp.schema)
    /\ \A i \in 1..Len(columns) :
          /\ Gained(i) = 1
          /\ SubSeq(columns[i].rows, 1, Len(last.before[i].rows)) = last.before[i].rows

LastStored == last.called /\ last.pair.tag = "stored"

\* C3: round trip. A row stored under any of the six layouts and decoded by
\* process_kv_pair under the matching handle mode yields the column values
\* and the handle it was built from.
C3_RoundTrip ==
    LastStored =>
        /\ last.pair.layout \in LayoutsOf(imp)
        /\ AppendedOneRow
        /\ AppendedRow = ExpectedRow(last.pair.row)

C3_Witness ==
    /\ LastStored
    /\ last.pair.layout = "new_unique_int"
    /\ last.pair.row = RowB
    /\ imp.decode_handle_strategy = "DecodeIntHandle"
    /\ Len(columns) = 3
    /\ last.res = "Ok"
    /\ calls = 2

\* The key payload of the last pair once the index-column datums are stripped.
PayloadAfterIndexColumns ==
    skip_n(SliceFrom(last.pair.key, PREFIX_LEN + ID_LEN),
           Len(imp.columns_id_without_handle)).val

\* The handle the last call pushed to the decoded integer column.
PushedHandle ==
    LET c == columns[Len(columns)] IN c.rows[Len(c.rows)]

\* C4: old-collation pairs in IntHandle mode. With the key payload used up by
\* the index columns the handle is the first 8 bytes of the value; otherwise
\* it is the integer of the key suffix. Either way it is the handle the pair
\* was built with.
C4_OldCollationIntHandle ==
    (/\ LastStored
     /\ imp.decode_handle_strategy = "DecodeIntHandle"
     /\ Len(last.pair.value) <= MAX_OLD_ENCODED_VALUE_LEN)
        => /\ last.res = "Ok"
           /\ last.loc.layout = "old"
           /\ Gained(Len(columns)) = 1
           /\ PayloadAfterIndexColumns = <<>>
                  => /\ last.loc.handle_from = "value"
                     /\ PushedHandle = SubSeq(last.pair.value, 1, 8)
           /\ PayloadAfterIndexColumns # <<>>
                  => /\ last.loc.handle_from = "key"
                     /\ last.loc.handle_bytes = PayloadAfterIndexColumns
           /\ PushedHandle = I64Of(last.pair.row.handle[1].v)

C4_Witness ==
    /\ LastStored
    /\ imp.decode_handle_strategy = "DecodeIntHandle"
    /\ last.pair.layout = "old_unique_int"
    /\ last.pair.row = RowB
    /\ PayloadAfterIndexColumns = <<>>
    /\ last.res = "Ok"
    /\ PushedHandle = <<255, 255, 255, 255, 255, 255, 255, 255>>

\* The value of the last pair and the tail_len its first byte gives.
LastValue == last.pair.value
LastTailLen == LastValue[1]

\* The last call took the new-collation rule in IntHandle mode with
\* 8 <= tail_len <= len(value) and reached the decode of the handle.
NewCollationHandleInValue ==
    /\ last.called
    /\ last.loc.layout = "new"
    /\ imp.decode_handle_strategy = "DecodeIntHandle"
    /\ LastTailLen >= 8
    /\ LastTailLen <= Len(LastValue)
    /\ last.loc.handle_read

LastEightBytes(value) == SubSeq(value, Len(value) - 7, Len(value))

\* C5 as claimed: with 8 <= tail_len <= len(value) the pushed handle is the
\* last 8 bytes of the value, for tail_len = 8 and tail_len = 9 alike.
C5_HandleIsLastEightBytes ==
    NewCollationHandleInValue
        => (last.res = "Ok" /\ PushedHandle = LastEightBytes(LastValue))

\* C5 as amended: the pushed handle is the first 8 bytes of the tail,
\* value[len - tail_len .. len - tail_len + 8); these are the last 8 bytes of
\* the value when tail_len = 8.
C5_HandleIsFirstEightOfTail ==
    NewCollationHandleInValue
        => /\ last.res = "Ok"
           /\ Gained(Len(columns)) = 1
           /\ PushedHandle = Slice(LastValue, Len(LastValue) - LastTailLen,
                                   Len(LastValue) - LastTailLen + 8)
           /\ LastTailLen = 8 => PushedHandle = LastEightBytes(LastValue)

C5_Witness ==
    /\ NewCollationHandleInValue
    /\ LastTailLen = 9
    /\ last.res = "Ok"
    /\ PushedHandle = I64Of(4)
    /\ PushedHandle # LastEightBytes(LastValue)

\* C6: a new-collation value with tail_len above len(value) is an error, and
\* for every tail_len <= len(value) the restore data value[1 .. len -
\* tail_len] is a well-formed span (1 <= len - tail_len), so the decode never
\* aborts on it.
C6_RestoreSpanWellFormed ==
    (last.called /\ last.loc.layout = "new")
        => /\ LastTailLen > Len(LastValue) => last.res = "Err"
           /\ LastTailLen <= Len(LastValue)
                  => /\ 1 <= Len(LastValue) - LastTailLen
                     /\ last.res # "Panic"

\* C7 as claimed: a failed process_kv_pair leaves every column with the
\* number of rows it had before the call.
C7_FailureLeavesNoPartialRow ==
    (last.called /\ last.res = "Err")
        => \A i \in 1..Len(columns) : Gained(i) = 0

\* C7 as amended: a failed process_kv_pair takes no row away and changes
\* none; the columns that gained a row (one each) are a proper prefix of the
\* schema, so the last column is as it was before the call.
C7_FailureLeavesPrefixRow ==
    (last.called /\ last.res = "Err")
        => /\ Len(columns) = Len(last.before)
           /\ \A i \in 1..Len(columns) :
                 /\ Gained(i) \in {0, 1}
                 /\ columns[i].kind = last.before[i].kind
                 /\ SubSeq(columns[i].rows, 1, Len(last.before[i].rows))
                        = last.before[i].rows
           /\ \A i, j \in 1..Len(columns) : i < j => Gained(j) <= Gained(i)
           /\ Len(columns) > 0 => Gained(Len(columns)) = 0

C7_Witness ==
    /\ last.called
    /\ last.res = "Err"
    /\ last.pair.tag = "bad_handle_flag"
    /\ imp.decode_handle_strategy = "DecodeIntHandle"
    /\ Len(columns) = 3
    /\ Gained(1) = 1
    /\ Gained(2) = 1
    /\ Gained(3) = 0

\* The handle length a value states: the big-endian u16 at offset 2.
StatedHandleLen(value) == value[3] * 256 + value[4]

\* The last call took the unique-common-handle rule in CommonHandle mode.
UniqueCommonHandleCall ==
    /\ last.called
    /\ last.loc.layout = "unique_common"
    /\ imp.decode_handle_strategy = "DecodeCommonHandle"

\* C8: with handle_len the u16 at offset 2, 4 + handle_len > len(value) is a
\* decode error that reads no handle byte and writes no column; otherwise
\* the handle bytes are exactly value[4 .. 4 + handle_len).
C8_HandleEndChecked ==
    UniqueCommonHandleCall
        => LET hl == StatedHandleLen(LastValue)
           IN  /\ last.loc.handle_len = hl
               /\ 4 + hl > Len(LastValue)
                      => /\ last.res = "Err"
                         /\ ~last.loc.handle_read
                         /\ columns = last.before
               /\ 4 + hl <= Len(LastValue)
                      => /\ last.res = "Ok" => last.loc.handle_read
                         /\ last.loc.handle_read
                                => /\ last.loc.common_handle
                                          = SubSeq(LastValue, 5, 4 + hl)
                                   /\ Len(last.loc.common_handle) = hl

C8_Witness ==
    /\ UniqueCommonHandleCall
    /\ last.pair.tag = "handle_len_exceeds"
    /\ 4 + StatedHandleLen(LastValue) = Len(LastValue) + 1
    /\ last.res = "Err"
    /\ calls = 2
    /\ \E i \in 1..Len(columns) : Len(columns[i].rows) = 1

\* C9: new-collation values with tail_len in [0, 8). The bytes handed to the
\* row-format decoder are exactly value[1 .. len - tail_len], and the index
\* columns decoded from them together with the handle of the key suffix are
\* the values the pair was built from.
C9_RestoreRegion ==
    (LastStored /\ last.pair.layout = "new_non_unique")
        => /\ last.loc.layout = "new"
           /\ LastTailLen = last.pair.pad
           /\ LastTailLen < 8
           /\ last.loc.restore_read
           /\ last.loc.restore_values
                  = SubSeq(LastValue, 2, Len(LastValue) - LastTailLen)
           /\ last.loc.restore_values = restore_data(imp, last.pair.row)
           /\ imp.decode_handle_strategy # "NoDecode"
                  => last.loc.handle_from = "key"
           /\ AppendedOneRow
           /\ AppendedRow = ExpectedRow(last.pair.row)

C9_Witness ==
    /\ LastStored
    /\ last.pair.layout = "new_non_unique"
    /\ LastTailLen = 7
    /\ last.pair.row = RowB
    /\ imp.decode_handle_strategy = "DecodeIntHandle"
    /\ Len(imp.columns_id_without_handle) = 2
    /\ last.res = "Ok"

\* The other unique-common-handle layout of the same row: with restore data
\* for a pair without, and without for a pair with.
Counterpart(p) ==
    encode_pair(imp, p.row,
                IF p.layout = "new_unique_common" THEN "old_unique_common"
                ELSE "new_unique_common", 0)

\* C10: a unique-common-handle pair decodes to the same row whether its
\* value carries restore data after the handle (index columns from the
\* restore data) or ends at the handle (index columns from the key payload).
C10_SameRowWithAndWithoutRestoreData ==
    (LastStored /\ last.pair.layout \in {"old_unique_common", "new_unique_common"})
        => LET q == Counterpart(last.pair)
               o == process_kv_pair(imp, q.key, q.value, last.before)
           IN  /\ AppendedOneRow
               /\ last.loc.restore_read = (last.pair.layout = "new_unique_common")
               /\ o.loc.restore_read = ~last.loc.restore_read
               /\ o.res = "Ok"
               /\ NewestRow(o.columns) = AppendedRow
               /\ AppendedRow = ExpectedRow(last.pair.row)

C10_Witness ==
    /\ LastStored
    /\ last.pair.layout = "old_unique_common"
    /\ last.pair.row = RowA
    /\ Len(imp.columns_id_without_handle) = 2
    /\ Len(columns) = 3
    /\ last.res = "Ok"
    /\ ~last.loc.restore_read
    /\ columns[1].rows[Len(columns[1].rows)]
           # process_kv_pair(imp, Counterpart(last.pair).key,
                 Counterpart(last.pair).value, last.before).columns[1].rows[
                     Len(columns[1].rows)]

\* The column vector exists: build_column_vec has returned it.
ColumnsBuilt == pc \in {"ready", "failed"} \/ (pc = "aborted" /\ last.called)

\* The representation a column of the schema is to have.
KindOf(i) ==
    IF imp.decode_handle_strategy = "DecodeIntHandle" /\ i = Len(imp.schema)
    THEN "decoded" ELSE "raw"

\* C11: build_column_vec returns schema.len() containers and its assertion
\* never fails; index columns and common handle columns are raw, the only
\* decoded container is the last one in int handle mode; process_kv_pair
\* never pushes a raw value to a decoded container or a typed value to a raw
\* one, and leaves the representations as they were built.
C11_ColumnRepresentation ==
    /\ pc = "aborted" => (last.called /\ last.res = "Panic")
    /\ ColumnsBuilt
           => /\ Len(columns) = Len(imp.schema)
              /\ Len(columns) = Len(columns_info)
              /\ \A i \in 1..Len(columns) : columns[i].kind = KindOf(i)
              /\ \A i \in 1..Len(columns) :
                     \A k \in 1..Len(columns[i].rows) :
                         columns[i].kind = "decoded"
                             => Len(columns[i].rows[k]) = U64_SIZE
    /\ last.called
           => last.msg[1] \notin {"mut_raw on a decoded column",
                                  "mut_decoded on a raw column",
                                  "index out of bounds: columns[n]"}

C11_Witness ==
    /\ pc = "ready"
    /\ calls = 2
    /\ imp.decode_handle_strategy = "DecodeIntHandle"
    /\ Len(columns) = 3
    /\ columns[1].kind = "raw"
    /\ columns[2].kind = "raw"
    /\ columns[3].kind = "decoded"
    /\ Len(columns[3].rows) = 2
    /\ Len(columns[1].rows) = 2

\* ------------------------------------------------------- the scan claims

\* The value a column holds at a row: a decoded column holds it, a raw
\* column holds the datum that decodes to it.
LogicalAt(cols, i, k) ==
    IF cols[i].kind = "decoded" THEN cols[i].rows[k] ELSE RawLogical(cols[i].rows[k])

\* The rows of a column vector, each one value per column.
RowsOf(cols) ==
    IF cols = <<>> THEN <<>>
    ELSE [k \in 1..Len(cols[1].rows) |-> [i \in 1..Len(cols) |-> LogicalAt(cols, i, k)]]

\* The scan of test_basic, case 1.1: the normal index read backward over
\* the whole index with the schema (int, float), in one batch that has room
\* for every row.
BackwardFullScan ==
    /\ pc = "scanning"
    /\ storage = normal_store
    /\ columns_info = <<ColumnInfo(1, FALSE), ColumnInfo(2, FALSE)>>
    /\ primary_column_ids_len = 0
    /\ key_ranges = <<full_range>>
    /\ is_backward
    /\ Len(batches) = 1
    /\ batches[1].scan_rows > Len(storage)

\* C12 as claimed: the backward scan of the whole index yields (5, 5.1),
\* (5, 10.5), (-5, 0.3) in this order, the int column raw.
C12_BackwardOrderAsClaimed ==
    BackwardFullScan
        => /\ RowsOf(batches[1].physical_columns)
                  = << <<I64Of(5), F64_5_1>>, <<I64Of(5), F64_10_5>>,
                       <<I64Of(-5), F64_0_3>> >>
           /\ batches[1].physical_columns[1].kind = "raw"

\* C12 as amended: the backward scan of the whole index yields the rows in
\* descending key order, (5, 10.5), (5, 5.1), (-5, 0.3), both columns raw,
\* and the batch is drained.
C12_BackwardFullScan ==
    BackwardFullScan
        => /\ RowsOf(batches[1].physical_columns)
                  = << <<I64Of(5), F64_10_5>>, <<I64Of(5), F64_5_1>>,
                       <<I64Of(-5), F64_0_3>> >>
           /\ Len(batches[1].physical_columns) = 2
           /\ batches[1].physical_columns[1].kind = "raw"
           /\ batches[1].physical_columns[2].kind = "raw"
           /\ batches[1].is_drained = "true"

C12_Witness ==
    /\ BackwardFullScan
    /\ Len(batches[1].physical_columns[1].rows) = 3
    /\ RawLogical(batches[1].physical_columns[2].rows[1]) = F64_10_5

\* The storage positions of the pairs the batches so far were made of, and
\* the rows of these batches, in the order they were returned.
RECURSIVE AllScanned(_)
AllScanned(bs) ==
    IF bs = <<>> THEN <<>> ELSE bs[1].scanned \o AllScanned(Tail(bs))

RECURSIVE AllRows(_)
AllRows(bs) ==
    IF bs = <<>> THEN <<>>
    ELSE RowsOf(bs[1].physical_columns) \o AllRows(Tail(bs))

\* The scan has returned its last batch and no call failed.
ScanComplete ==
    /\ pc = "scanning"
    /\ is_ended
    /\ batches[Len(batches)].is_drained = "true"

\* The values of the columns of the schema in a stored row: the datums of
\* the key, then the handle.
ScanRow(row) ==
    [i \in 1..Len(imp.schema) |-> DatumLogical((row.idx \o row.handle)[i])]

\* The pair at position i lies in the range: start <= key < end.
InRange(range, i) ==
    KeyLeq(range.start, storage[i].key) /\ KeyLess(storage[i].key, range.end)

\* The range is served by a point lookup.
ServedByGet(range) == accept_point_range /\ is_point(range)

\* The pair at position i is what the range yields: for a range served by a
\* point lookup the pair stored at its start key, else every pair in it.
Yields(range, i) ==
    IF ServedByGet(range) THEN storage[i].key = range.start ELSE InRange(range, i)

\* The rows are in the order of the scan: ascending keys for a forward
\* scan, descending keys for a backward one.
InScanOrder(seq) ==
    \A k, l \in 1..Len(seq) :
        k < l => IF is_backward
                 THEN KeyLess(storage[seq[l]].key, storage[seq[k]].key)
                 ELSE KeyLess(storage[seq[k]].key, storage[seq[l]].key)

\* C13 as claimed: a complete scan returns exactly one row per stored pair
\* with start <= key < end for a range of the request and no other row, in
\* ascending key order forward and descending key order backward.
C13_EveryPairInRangeAsClaimed ==
    ScanComplete
        => LET seq == AllScanned(batches)
               inside == {i \in 1..Len(storage) :
                             \E j \in 1..Len(key_ranges) : InRange(key_ranges[j], i)}
           IN  /\ {seq[k] : k \in 1..Len(seq)} = inside
               /\ Len(seq) = Cardinality(inside)
               /\ InScanOrder(seq)

\* C13 as amended: a complete scan returns exactly one row per stored pair
\* that a range of the request yields and no other row, in ascending key
\* order forward and descending key order backward, each row holding the
\* values of its pair. An iterated range yields the pairs with start <= key
\* < end; a point range of a scan that accepts point ranges yields only the
\* pair stored at its start key.
C13_ScanReturnsRange ==
    ScanComplete
        => LET seq == AllScanned(batches)
               yielded == {i \in 1..Len(storage) :
                              \E j \in 1..Len(key_ranges) : Yields(key_ranges[j], i)}
           IN  /\ {seq[k] : k \in 1..Len(seq)} = yielded
               /\ Len(seq) = Cardinality(yielded)
               /\ InScanOrder(seq)
               /\ AllRows(batches) = [k \in 1..Len(seq) |-> ScanRow(storage[seq[k]].row)]

C13_Witness ==
    /\ ScanComplete
    /\ storage = normal_store
    /\ Len(imp.schema) = 3
    /\ key_ranges = <<range_below_5, prefix_range_5>>
    /\ is_backward
    /\ ~accept_point_range
    /\ Len(batches) = 2
    /\ AllScanned(batches) = <<3, 2, 1>>
    /\ AllRows(batches)[1] = <<I64Of(5), F64_10_5, I64Of(2)>>

\* The result of the whole scan taken in one batch that has room for every
\* pair of the storage.
WholeScan ==
    next_batch(imp, storage, visit_order(key_ranges, is_backward), is_backward,
               accept_point_range, NewScanner, Len(storage) + 1)

IsPrefix(s, t) == Len(s) <= Len(t) /\ s = SubSeq(t, 1, Len(s))

\* The number of rows of a batch.
RowsLen(b) == Len(RowsOf(b.physical_columns))

\* C14: successive next_batch calls partition the result of the scan. Every
\* batch holds at most scan_rows rows, one per pair it took from the storage;
\* the batches so far are the start of the whole result, no pair taken twice
\* and none passed over, and up to the drained batch they are all of it.
C14_BatchesPartitionResult ==
    pc = "scanning"
        => /\ \A k \in 1..Len(batches) :
                 /\ RowsLen(batches[k]) <= batches[k].scan_rows
                 /\ RowsLen(batches[k]) = Len(batches[k].scanned)
                 /\ \A i \in 1..Len(batches[k].physical_columns) :
                        Len(batches[k].physical_columns[i].rows) = RowsLen(batches[k])
                 /\ batches[k].is_drained = "false"
                        => RowsLen(batches[k]) = batches[k].scan_rows
                 /\ batches[k].is_drained # "false" => k = Len(batches)
           /\ IsPrefix(AllScanned(batches), WholeScan.scanned)
           /\ IsPrefix(AllRows(batches), RowsOf(WholeScan.columns))
           /\ \A k, l \in 1..Len(AllScanned(batches)) :
                  k # l => AllScanned(batches)[k] # AllScanned(batches)[l]
           /\ is_ended
                  => /\ AllScanned(batches) = WholeScan.scanned
                     /\ AllRows(batches) = RowsOf(WholeScan.columns)
                     /\ batches[Len(batches)].is_drained = WholeScan.is_drained

C14_Witness ==
    /\ ScanComplete
    /\ key_ranges = <<full_range>>
    /\ Len(imp.schema) = 3
    /\ storage = unique_store
    /\ Len(batches) = 3
    /\ batches[1].scan_rows = 2
    /\ RowsLen(batches[1]) = 2
    /\ batches[2].scan_rows = 1
    /\ RowsLen(batches[2]) = 1
    /\ batches[2].is_drained = "false"
    /\ RowsLen(batches[3]) = 0
    /\ Len(AllRows(batches)) = 3

\* The pairs of the scan not yet returned when the k-th call was made.
RemainingBefore(k) ==
    Len(WholeScan.scanned) - Len(AllScanned(SubSeq(batches, 1, k - 1)))

\* A scan none of whose pairs fails to decode.
ScanOfSoundPairs == pc = "scanning" /\ WholeScan.is_drained = "true"

\* C15 as claimed: a batch is drained exactly when no data remains in any
\* range after it, and not drained when more rows are available.
C15_DrainedExactlyWhenNothingRemains ==
    ScanOfSoundPairs
        => \A k \in 1..Len(batches) :
               (batches[k].is_drained = "true")
                   = (RemainingBefore(k) - RowsLen(batches[k]) = 0)

\* C15 as amended: a batch is drained exactly when fewer than scan_rows rows
\* remained when it was asked for; it then holds all of them. A batch that
\* is not drained is full, and while rows remain after a batch it is not
\* drained. When exactly scan_rows rows remained the batch holds them all and
\* is not drained; the call after it returns no row and is drained.
C15_DrainedWhenScannerRanOut ==
    ScanOfSoundPairs
        => \A k \in 1..Len(batches) :
               /\ (batches[k].is_drained = "true")
                      = (RemainingBefore(k) < batches[k].scan_rows)
               /\ batches[k].is_drained \in {"true", "false"}
               /\ batches[k].is_drained = "true"
                      => RowsLen(batches[k]) = RemainingBefore(k)
               /\ batches[k].is_drained = "false"
                      => RowsLen(batches[k]) = batches[k].scan_rows
               /\ RemainingBefore(k) > RowsLen(batches[k])
                      => batches[k].is_drained = "false"

C15_Witness ==
    /\ ScanOfSoundPairs
    /\ key_ranges = <<full_range>>
    /\ Len(batches) = 2
    /\ batches[1].scan_rows = 3
    /\ RowsLen(batches[1]) = 3
    /\ batches[1].is_drained = "false"
    /\ RowsLen(batches[2]) = 0
    /\ batches[2].is_drained = "true"

\* The range is a key followed by its successor.
PointShaped(range) == range.end = convert_to_prefix_next(range.start)

\* What the same scan returns when every range is iterated.
IteratedScan ==
    next_batch(imp, storage, visit_order(key_ranges, is_backward), is_backward,
               FALSE, NewScanner, Len(storage) + 1)

\* The last call asked for one row and got it: the scanner stands where
\* serving that row left it.
JustServedOne ==
    /\ pc = "scanning"
    /\ batches # <<>>
    /\ batches[Len(batches)].scan_rows = 1
    /\ RowsLen(batches[Len(batches)]) = 1

\* The range that row came from was served by a point lookup: the scanner
\* has left the range without opening a scan of it.
JustServedByGet == JustServedOne /\ ~scanner.in_range

\* The range the last row came from.
JustServedRange ==
    visit_order(key_ranges, is_backward)[
        IF scanner.in_range THEN scanner.idx ELSE scanner.idx - 1]

\* A range is served by a point lookup only in an executor built with
\* unique = true and only when it is a key followed by its successor.
GetOnlyForUniquePoint ==
    JustServedOne
        => (JustServedByGet = (unique /\ PointShaped(JustServedRange)))

\* C16 as claimed: only a unique executor serves a range by point lookup and
\* only a range that is a key followed by its successor; and what the scan
\* returns with point lookups is what it returns when every range is
\* iterated.
C16_PointLookupEqualsIteration ==
    /\ GetOnlyForUniquePoint
    /\ (ScanComplete /\ IteratedScan.is_drained = "true")
           => /\ AllScanned(batches) = IteratedScan.scanned
              /\ AllRows(batches) = RowsOf(IteratedScan.columns)

\* C16 as amended: only a unique executor serves a range by point lookup and
\* only a range that is a key followed by its successor. Such a range
\* returns at most one row, the pair stored at its start key; the scan
\* returns the rows of the iteration whose pair is stored at the start key
\* of its range, which is all of them when no other key lies in a looked-up
\* range.
C16_PointLookupReturnsPairAtKey ==
    /\ GetOnlyForUniquePoint
    /\ (ScanComplete /\ IteratedScan.is_drained = "true")
           => /\ AllScanned(batches)
                     = SelectSeq(IteratedScan.scanned,
                           LAMBDA i : \E j \in 1..Len(key_ranges) :
                                          Yields(key_ranges[j], i))
              /\ \A j \in 1..Len(key_ranges) :
                     ServedByGet(key_ranges[j])
                         => Cardinality({i \in 1..Len(storage) :
                                Yields(key_ranges[j], i)}) <= 1
              /\ (\A j \in 1..Len(key_ranges), i \in 1..Len(storage) :
                      (ServedByGet(key_ranges[j]) /\ InRange(key_ranges[j], i))
                          => storage[i].key = key_ranges[j].start)
                     => /\ AllScanned(batches) = IteratedScan.scanned
                        /\ AllRows(batches) = RowsOf(IteratedScan.columns)

C16_Witness ==
    /\ JustServedByGet
    /\ unique
    /\ storage = unique_store
    /\ key_ranges = <<point_range_5_51>>
    /\ Len(imp.schema) = 3
    /\ AllRows(batches) = << <<I64Of(5), F64_5_1, I64Of(5)>> >>
    /\ AllScanned(batches) = IteratedScan.scanned

\* ------------------------------------------------------ the trace claims

\* C17: decode_spans(encode_spans(s)) = s for every list of span sets s, the
\* empty list and the largest field values included: the times of each set,
\* the order of the spans, and the id, begin_cycles, elapsed_cycles, event
\* and link (kind and id) of each span come back as they were.
C17_EncodeDecodeRoundTrip ==
    /\ trace_pc # "aborted"
    /\ trace_pc = "decoded" => encode_and_decode = raw_span_sets
    /\ trace_pc \in {"encoded", "decoded"}
           => /\ Len(spanpb_set_vec) = Len(raw_span_sets)
              /\ \A k \in 1..Len(raw_span_sets) :
                     /\ Len(spanpb_set_vec[k].spans) = Len(raw_span_sets[k].spans)
                     /\ \A i \in 1..Len(raw_span_sets[k].spans) :
                            spanpb_set_vec[k].spans[i].end_cycles
                                = raw_span_sets[k].spans[i].elapsed_cycles

C17_Witness ==
    /\ trace_pc = "decoded"
    /\ Len(raw_span_sets) = 2
    /\ raw_span_sets[1].create_time_ns = U64_MAX
    /\ Len(raw_span_sets[1].spans) = 2
    /\ raw_span_sets[1].spans[1].link = LinkParent(U64_MAX)
    /\ raw_span_sets[1].spans[1].event = U32_MAX
    /\ raw_span_sets[1].spans[2].link = LinkContinue(U64_MAX)
    /\ raw_span_sets[2].create_time_ns = I64Of(0)
    /\ raw_span_sets[2].spans = <<>>
    /\ encode_and_decode = raw_span_sets

\* ------------------------------------------------ the construction claims

\* The column list with the pk_handle flag cleared on all but the last column.
LastFlagOnly(ci) ==
    [i \in 1..Len(ci) |-> IF i < Len(ci) THEN ColumnInfo(ci[i].column_id, FALSE)
                          ELSE ci[i]]

\* C18 as claimed: an executor is only constructed from a column list in
\* which no column but the last is flagged pk_handle.
C18_OnlyLastColumnFlagged ==
    new_result = "Ok"
        => \A i \in 1..Len(columns_info) :
               columns_info[i].pk_handle => i = Len(columns_info)

\* C18 as amended: new reads the pk_handle flag of the last column only. The
\* executor is in int handle mode exactly when the last column is flagged;
\* flags on other columns are accepted and change nothing: new gives what
\* it gives for the list with these flags cleared, and such a column is an
\* index column, built raw, unless it lies among the trailing columns of a
\* common handle.
C18_OnlyLastFlagIsRead ==
    /\ new_result # "none"
           => /\ new(columns_info, primary_column_ids_len)
                     = new(LastFlagOnly(columns_info), primary_column_ids_len)
              /\ new_result
                     = new(LastFlagOnly(columns_info), primary_column_ids_len).res
    /\ new_result = "Ok"
           => /\ (imp.decode_handle_strategy = "DecodeIntHandle") = LastIsPkHandle
              /\ \A i \in 1..Len(columns_info) :
                     (columns_info[i].pk_handle /\ i < Len(columns_info))
                         => IF i <= Len(imp.columns_id_without_handle)
                            THEN /\ imp.columns_id_without_handle[i]
                                        = columns_info[i].column_id
                                 /\ ColumnsBuilt => columns[i].kind = "raw"
                            ELSE imp.decode_handle_strategy = "DecodeCommonHandle"

C18_Witness ==
    /\ new_result = "Ok"
    /\ columns_info = <<ColumnInfo(1, TRUE), ColumnInfo(3, TRUE)>>
    /\ imp.decode_handle_strategy = "DecodeIntHandle"
    /\ imp.columns_id_without_handle = <<1>>
    /\ pc = "ready"
    /\ calls = 1
    /\ columns[1].kind = "raw"
    /\ Len(columns[1].rows) = 1
    /\ columns[2].kind = "decoded"

\* The number of trailing handle columns of the constructed executor.
HandleColumnCount == Len(columns_info) - Len(imp.columns_id_without_handle)

\* The mode and the index/handle split are those new derives from the last
\* column's pk_handle flag and primary_column_ids_len > 0.
ModeAsDerived ==
    new_result = "Ok"
        => /\ (~LastIsPkHandle /\ primary_column_ids_len = 0)
                  => /\ imp.decode_handle_strategy = "NoDecode"
                     /\ HandleColumnCount = 0
           /\ (LastIsPkHandle /\ primary_column_ids_len = 0)
                  => /\ imp.decode_handle_strategy = "DecodeIntHandle"
                     /\ HandleColumnCount = 1
           /\ (~LastIsPkHandle /\ primary_column_ids_len > 0)
                  => /\ imp.decode_handle_strategy = "DecodeCommonHandle"
                     /\ HandleColumnCount = primary_column_ids_len
           /\ HandleColumnCount \in 0..Len(columns_info)
           /\ imp.columns_id_without_handle
                  = [i \in 1..(Len(columns_info) - HandleColumnCount) |->
                        columns_info[i].column_id]
           /\ Len(imp.schema) = Len(columns_info)

\* No step after new changes the executor: not build_column_vec, not a call
\* of process_kv_pair or next_batch, whatever it returns.
ModeFrozen ==
    pc # "start" => /\ imp' = imp
                    /\ new_result' = new_result

\* C19: the handle mode is derived once by new: (false, false) gives no
\* handle and 0 handle columns, (true, false) the int handle and 1,
\* (false, true) the common handle and primary_column_ids_len; the index
\* columns are the first len - handle count columns; and neither the mode
\* nor the split changes in any later call, successful or failed.
C19_ModeDerivedOnceAndFrozen ==
    [](ModeAsDerived) /\ [][ModeFrozen]_vars

\* A common handle executor of two handle columns after a successful and
\* then a failed call of process_kv_pair.
C19_Witness ==
    /\ new_result = "Ok"
    /\ ~LastIsPkHandle
    /\ primary_column_ids_len = 2
    /\ imp.decode_handle_strategy = "DecodeCommonHandle"
    /\ HandleColumnCount = 2
    /\ calls = 2
    /\ last.res = "Err"
    /\ Len(last.before[1].rows) = 1

\* ------------------------------------------------ the layout rule claims

\* The layout rule the claim gives a value.
RuleOf(value) ==
    IF Len(value) > MAX_OLD_ENCODED_VALUE_LEN
    THEN IF value[1] <= 1 /\ value[2] = INDEX_VALUE_COMMON_HANDLE_FLAG
         THEN "unique_common"
         ELSE "new"
    ELSE "old"

\* The key of the last call passes check_index_key.
LastKeyChecked == IsOk(check_index_key(last.pair.key))

\* The last call read nothing of its value: it gives the same outcome for
\* every value, and none of its locals was set.
LastReadNoValue ==
    /\ last.loc = NoLoc
    /\ \A v \in {<<>>, <<0, INDEX_VALUE_COMMON_HANDLE_FLAG>> \o Zeros(8), Zeros(10)} :
           LET r == process_kv_pair(imp, last.pair.key, v, last.before)
           IN  r.res = last.res /\ r.msg = last.msg /\ r.columns = columns

\* What the claim says of the last call, for the keys it is checked on.
LayoutRuleApplied ==
    /\ last.loc.layout = RuleOf(last.pair.value)
    /\ (/\ RuleOf(last.pair.value) = "unique_common"
        /\ imp.decode_handle_strategy # "DecodeCommonHandle")
           => /\ last.res = "Err"
              /\ columns = last.before

\* C20 as claimed: process_kv_pair applies exactly one layout rule to each
\* pair whose key passes the prefix check: the unique common handle rule
\* iff the value is longer than 9 bytes with value[0] <= 1 and
\* value[1] = 127, the new collation rule iff it is longer than 9 bytes
\* otherwise, the old collation rule iff it is at most 9 bytes; a unique
\* common handle value outside common handle mode is an error that modifies
\* no column; a key failing the prefix check is an error returned before
\* any value byte is read.
C20_ExactlyOneLayoutRule ==
    last.called
        => IF LastKeyChecked
           THEN LayoutRuleApplied
           ELSE /\ last.res = "Err"
                /\ columns = last.before
                /\ LastReadNoValue

\* C20 for the keys that hold the whole 19 bytes before the payload: what
\* the claim says holds of them, and of the keys failing the prefix check.
C20_LayoutRuleOfWholeKeys ==
    (last.called /\ (LastKeyChecked => Len(last.pair.key) >= PREFIX_LEN + ID_LEN))
        => C20_ExactlyOneLayoutRule

\* C20: a key that passes the prefix check and ends before the index id
\* does: process_kv_pair aborts on it, applying no rule.
C20_TruncatedKeyAborts ==
    (last.called /\ LastKeyChecked /\ Len(last.pair.key) < PREFIX_LEN + ID_LEN)
        => last.res = "Panic" /\ last.loc.layout = "none"

C20_TruncatedKeyReached ==
    /\ last.called
    /\ last.pair.tag = "truncated_key"
    /\ LastKeyChecked
    /\ pc = "aborted"

C20_EachRuleReached ==
    /\ last.called
    /\ last.pair.tag = "common_flag_version_1"
    /\ last.loc.layout = "unique_common"
    /\ imp.decode_handle_strategy = "DecodeIntHandle"
    /\ last.res = "Err"

\* ------------------------------------------ the unique common handle claims

\* The last call was given a unique common handle value without restore
\* data, 0x00 | flag | handle length | handle, in common handle mode; the
\* handle holds one datum per handle column.
UniqueCommonWithoutRestoreData ==
    /\ last.called
    /\ imp.decode_handle_strategy = "DecodeCommonHandle"
    /\ last.pair.tag \in {"stored", "short_common_handle"}
    /\ last.pair.layout = "old_unique_common"
    /\ last.pair.key = unique_key(imp, last.pair.row)
    /\ Len(last.pair.value) >= 4
    /\ last.pair.value[1] = 0
    /\ last.pair.value[2] = INDEX_VALUE_COMMON_HANDLE_FLAG
    /\ read_u16(SliceFrom(last.pair.value, 2)).val + 4 = Len(last.pair.value)

\* The last call decoded its pair by the unique common handle rule: the
\* handle columns from value[4 ..], the index columns from the key.
DecodedByUniqueCommonRule ==
    /\ last.loc.layout = "unique_common"
    /\ last.loc.common_handle = SliceFrom(last.pair.value, 4)
    /\ AppendedOneRow
    /\ AppendedRow = ExpectedRow(last.pair.row)

\* C21 as claimed: a unique common handle value without restore data is
\* decoded by the unique common handle rule whatever the length of the
\* handle, values of at most 9 bytes included.
C21_UniqueCommonRuleForEveryLength ==
    UniqueCommonWithoutRestoreData => DecodedByUniqueCommonRule

\* C21 for values longer than 9 bytes: the rule is applied and gives the
\* row the pair was built from.
C21_UniqueCommonRuleAboveCeiling ==
    (UniqueCommonWithoutRestoreData
         /\ Len(last.pair.value) > MAX_OLD_ENCODED_VALUE_LEN)
        => DecodedByUniqueCommonRule

\* C21 for values of at most 9 bytes: process_kv_pair takes the old
\* collation rule, looks for the handle in the key, where a unique index has
\* none, and fails after the index columns were appended.
C21_ShortHandleTakesOldRule ==
    (UniqueCommonWithoutRestoreData
         /\ Len(last.pair.value) <= MAX_OLD_ENCODED_VALUE_LEN)
        => /\ last.loc.layout = "old"
           /\ last.res = "Err"
           /\ last.msg = <<"th column is missing value", 0>>
           /\ last.loc.handle_from = "key"
           /\ \A i \in 1..Len(columns) :
                  Gained(i) = IF i <= Len(imp.columns_id_without_handle) THEN 1 ELSE 0

C21_ShortHandleReached ==
    /\ UniqueCommonWithoutRestoreData
    /\ last.pair.tag = "short_common_handle"
    /\ Len(last.pair.value) = 8
    /\ primary_column_ids_len = 2
    /\ last.res = "Err"

C21_LongHandleReached ==
    /\ UniqueCommonWithoutRestoreData
    /\ last.pair.tag = "short_common_handle"
    /\ Len(last.pair.value) = 10
    /\ DecodedByUniqueCommonRule

\* ------------------------------------------------ the handle in the key

\* The last call took the new-collation rule in IntHandle mode with
\* tail_len < 8, decoded the restore data and skipped the index datums of
\* the key.
NewCollationHandleInKey ==
    /\ last.called
    /\ last.loc.layout = "new"
    /\ imp.decode_handle_strategy = "DecodeIntHandle"
    /\ LastTailLen < 8
    /\ last.loc.handle_from = "key"

\* The 64-bit pattern of the signed integer stored in the first 8 bytes of
\* b: the memory-comparable encoding has the sign bit flipped.
SignedOf(b) == [SubSeq(b, 1, 8) EXCEPT ![1] = (@ + 128) % 256]

\* The 64-bit pattern of the unsigned integer stored in the first 8 bytes of
\* b; kept as i64 it is the same pattern (values from 2^63 on are negative).
UnsignedOf(b) == SubSeq(b, 1, 8)

\* The handle column gained no row in the last call.
NoHandlePushed == Gained(Len(columns)) = 0

\* C22: new-collation values in IntHandle mode with tail_len < 8. The
\* handle is the integer datum that follows the N index datums of the key
\* payload: behind the signed flag a signed 64-bit read, behind the unsigned
\* flag an unsigned 64-bit read kept as i64, behind any other flag a decode
\* error with no handle pushed.
C22_HandleFromKeyByFlag ==
    (NewCollationHandleInKey /\ PayloadAfterIndexColumns # <<>>)
        => LET rest == PayloadAfterIndexColumns
               flag == rest[1]
               body == Tail(rest)
           IN  /\ last.loc.handle_bytes = rest
               /\ (flag = INT_FLAG /\ Len(body) >= 8)
                      => /\ AppendedOneRow
                         /\ PushedHandle = SignedOf(body)
               /\ (flag = UINT_FLAG /\ Len(body) >= 8)
                      => /\ AppendedOneRow
                         /\ PushedHandle = UnsignedOf(body)
               /\ (flag \in {INT_FLAG, UINT_FLAG} /\ Len(body) < 8)
                      => /\ last.res = "Err"
                         /\ NoHandlePushed
               /\ flag \notin {INT_FLAG, UINT_FLAG}
                      => /\ last.res = "Err"
                         /\ last.msg = <<"Unexpected handle flag", flag>>
                         /\ NoHandlePushed

\* An unsigned handle of 2^64 - 2 in the key comes out as -2, after a call
\* that met an unknown flag.
C22_Witness ==
    /\ NewCollationHandleInKey
    /\ last.pair.tag = "uint_handle_high"
    /\ PayloadAfterIndexColumns = <<UINT_FLAG, 255, 255, 255, 255, 255, 255, 255, 254>>
    /\ last.res = "Ok"
    /\ PushedHandle = I64Of(-2)

C22_WitnessOtherFlag ==
    /\ NewCollationHandleInKey
    /\ last.pair.tag = "bad_handle_flag"
    /\ last.res = "Err"
    /\ NoHandlePushed

C22_WitnessSigned ==
    /\ NewCollationHandleInKey
    /\ LastStored
    /\ PayloadAfterIndexColumns[1] = INT_FLAG
    /\ PushedHandle = I64Of(-1)

\* C23 as claimed: in IntHandle mode with a new-collation value and
\* tail_len < 8, a key payload with nothing left after the index datums
\* makes process_kv_pair return a decode error; it never aborts.
C23_EmptyRemainderIsError ==
    (NewCollationHandleInKey /\ PayloadAfterIndexColumns = <<>>)
        => /\ last.res = "Err"
           /\ pc # "aborted"

\* C23: what the code does with the empty remainder: decode_handle_from_key
\* indexes key[0] and the call aborts, the index columns already appended.
C23_EmptyRemainderAborts ==
    (NewCollationHandleInKey /\ PayloadAfterIndexColumns = <<>>)
        => /\ last.res = "Panic"
           /\ last.msg = <<"index out of bounds: key[0]", 0>>
           /\ pc = "aborted"
           /\ NoHandlePushed

C23_EmptyRemainderReached ==
    /\ NewCollationHandleInKey
    /\ last.pair.tag = "no_handle_in_key"
    /\ PayloadAfterIndexColumns = <<>>
    /\ last.pair.key = unique_key(imp, RowA)
    /\ pc = "aborted"

\* ------------------------------------------- the datum and row format claims

\* The datums the key of a stored pair was written from: the index datums,
\* and for a non-unique index the handle datums after them.
KeyDatums(p) ==
    LET n == Len(imp.columns_id_without_handle)
    IN  IF p.layout \in {"old_non_unique", "new_non_unique"}
        THEN SubSeq(p.row.idx, 1, n) \o SubSeq(p.row.handle, 1, HandleCount(imp))
        ELSE SubSeq(p.row.idx, 1, n)

\* The key payload of a pair.
PayloadOf(p) == SliceFrom(p.key, PREFIX_LEN + ID_LEN)

\* k empty raw columns.
RawColumns(k) == [i \in 1..k |-> raw_with_capacity]

\* extract_columns_from_datum_format over the payload of a key written from
\* the datums ds, into k empty raw columns.
ExtractsInOrder(payload, ds, k) ==
    LET r == extract_columns_from_datum_format(payload, RawColumns(k), 0, k)
    IN  IF k <= Len(ds)
        THEN /\ r.res = "Ok"
             /\ \A i \in 1..k : r.columns[i].rows = <<encode_key_datum(ds[i])>>
             /\ r.datum = encode_key(SubSeq(ds, k + 1, Len(ds)))
        ELSE /\ r.res = "Err"
             /\ r.msg = <<"th column is missing value", Len(ds)>>
             /\ \A i \in 1..k :
                    r.columns[i].rows = IF i <= Len(ds)
                                        THEN <<encode_key_datum(ds[i])>>
                                        ELSE <<>>

\* C24: extract_columns_from_datum_format over a cursor and k columns strips
\* one datum per column from the front of the cursor and appends it to that
\* column, in column order; it fails with an error naming the first column
\* whose turn finds the cursor empty, the columns before it appended to; on
\* success the cursor is left at the bytes after the k-th datum, and bytes
\* left over are not an error. In a call of process_kv_pair on an old
\* collation pair the cursor left by the index columns is where the handle
\* is read.
C24_DatumFormatExtraction ==
    LastStored
        => /\ PayloadOf(last.pair) = encode_key(KeyDatums(last.pair))
           /\ \A k \in 0..(Len(KeyDatums(last.pair)) + 1) :
                  ExtractsInOrder(PayloadOf(last.pair), KeyDatums(last.pair), k)
           /\ (last.loc.layout = "old" /\ last.loc.handle_from = "key")
                  => last.loc.handle_bytes
                         = encode_key(SubSeq(KeyDatums(last.pair),
                                             Len(imp.columns_id_without_handle) + 1,
                                             Len(KeyDatums(last.pair))))
           /\ (last.loc.layout = "old"
                   /\ imp.decode_handle_strategy = "NoDecode")
                  => AppendedOneRow

\* An old collation non-unique pair of a row with a NULL index column, its
\* two index datums and its common handle datum extracted.
C24_Witness ==
    /\ LastStored
    /\ last.pair.row = RowB
    /\ last.pair.layout = "old_non_unique"
    /\ imp.decode_handle_strategy = "DecodeCommonHandle"
    /\ Len(imp.columns_id_without_handle) = 2
    /\ primary_column_ids_len = 1
    /\ last.res = "Ok"
    /\ columns[2].rows = <<DATUM_DATA_NULL>>
    /\ Len(last.loc.handle_bytes) = 9
    /\ columns[3].rows = <<last.loc.handle_bytes>>

C24_WitnessLeftOver ==
    /\ LastStored
    /\ last.pair.layout = "old_non_unique"
    /\ imp.decode_handle_strategy = "NoDecode"
    /\ Len(imp.columns_id_without_handle) = 2
    /\ Len(KeyDatums(last.pair)) = 3
    /\ last.res = "Ok"

\* The restore data the last call read, as a row.
RestoreRow == RowSlice_from_bytes(last.loc.restore_values)

\* The last call handed restore data that parses as a row to
\* extract_columns_from_row_format.
RowFormatCall ==
    /\ last.called
    /\ last.loc.restore_read
    /\ IsOk(RestoreRow)

InIds(ids, id) == \E j \in 1..Len(ids) : ids[j] = id

\* The index columns whose id the row has in neither of its sets.
MissingColumns ==
    { i \in 1..Len(imp.columns_id_without_handle) :
        /\ ~InIds(RestoreRow.val.non_null_ids, imp.columns_id_without_handle[i])
        /\ ~InIds(RestoreRow.val.null_ids, imp.columns_id_without_handle[i]) }

FirstMissing == CHOOSE m \in MissingColumns : \A i \in MissingColumns : m <= i

\* C25: extract_columns_from_row_format goes through the index column ids
\* in schema order: an id of the row's non-null set has its value appended
\* to its column as a datum, an id of the null set the NULL datum, and an id
\* of neither set fails the call with Unexpected missing column; ids of the
\* restore data that the schema does not hold are ignored.
C25_RowFormatExtraction ==
    RowFormatCall
        => LET ids == imp.columns_id_without_handle
               row == RestoreRow.val
           IN  IF MissingColumns = {}
               THEN \A i \in 1..Len(ids) :
                        /\ Gained(i) = 1
                        /\ InIds(row.null_ids, ids[i])
                               => NewestLogical(columns, i) = NULL
                                  /\ columns[i].rows[Len(columns[i].rows)]
                                         = DATUM_DATA_NULL
                        /\ (InIds(row.non_null_ids, ids[i])
                                /\ last.pair.row \in TableRows)
                               => /\ last.pair.row.idx[i].tp # "Null"
                                  /\ NewestLogical(columns, i)
                                         = I64Of(last.pair.row.idx[i].v)
               ELSE /\ last.res = "Err"
                    /\ last.msg = <<"Unexpected missing column", ids[FirstMissing]>>
                    /\ \A i \in 1..Len(columns) :
                           Gained(i) = IF i < FirstMissing THEN 1 ELSE 0

\* A row with a NULL index column read from restore data that also holds
\* column 9, which the schema does not ask for.
C25_Witness ==
    /\ RowFormatCall
    /\ last.pair.row = RowB
    /\ Len(imp.columns_id_without_handle) = 2
    /\ InIds(RestoreRow.val.null_ids, imp.columns_id_without_handle[2])
    /\ InIds(RestoreRow.val.non_null_ids, 9)
    /\ ~InIds(imp.columns_id_without_handle, 9)
    /\ last.res = "Ok"
    /\ columns[2].rows = <<DATUM_DATA_NULL>>

C25_WitnessMissing ==
    /\ RowFormatCall
    /\ last.pair.tag = "restore_missing_column"
    /\ Len(imp.columns_id_without_handle) = 2
    /\ MissingColumns = {2}
    /\ last.res = "Err"

\* ------------------------------------------ the common handle in the key

\* The number of whole datums at the front of buf.
RECURSIVE CountDatums(_)
CountDatums(buf) ==
    IF buf = <<>> \/ ~IsOk(split_datum(buf)) THEN 0
    ELSE 1 + CountDatums(split_datum(buf).val.remaining)

\* The k-th datum of buf, flag byte included.
RECURSIVE NthDatum(_, _)
NthDatum(buf, k) ==
    IF k = 1 THEN split_datum(buf).val.value
    ELSE NthDatum(split_datum(buf).val.remaining, k - 1)

\* The newest row of column i, as stored.
NewestRaw(i) == columns[i].rows[Len(columns[i].rows)]

\* The last call was in common handle mode on a pair whose value is not
\* flagged as a common handle, and got as far as the key: an old collation
\* value, or a new collation value whose restore data holds every index
\* column.
CommonHandleInKey ==
    /\ last.called
    /\ imp.decode_handle_strategy = "DecodeCommonHandle"
    /\ \/ last.loc.layout = "old"
       \/ /\ last.loc.layout = "new"
          /\ RowFormatCall
          /\ MissingColumns = {}

\* C26: in common handle mode with a non-unique pair the handle columns are
\* the datums of the key payload that follow the N index datums, appended
\* raw in schema order. In new collation the N index datums of the key are
\* skipped and the index columns come from the restore data; in old
\* collation the N index datums are the index columns. A key with fewer
\* than N + handle count datums is a decode error.
C26_CommonHandleFromKey ==
    CommonHandleInKey
        => LET n == Len(imp.columns_id_without_handle)
               hc == Len(imp.schema) - n
               payload == PayloadOf(last.pair)
           IN  IF CountDatums(payload) < n + hc
               THEN last.res = "Err"
               ELSE /\ AppendedOneRow
                    /\ \A j \in 1..hc :
                           /\ columns[n + j].kind = "raw"
                           /\ NewestRaw(n + j) = NthDatum(payload, n + j)
                           /\ LastStored
                                  => NewestRaw(n + j)
                                         = encode_key_datum(last.pair.row.handle[j])
                    /\ \A i \in 1..n :
                           /\ columns[i].kind = "raw"
                           /\ last.loc.layout = "old"
                                  => NewestRaw(i) = NthDatum(payload, i)
                           /\ last.loc.layout = "new"
                                  => /\ NewestRaw(i)[1] \in {VAR_INT_FLAG, NIL_FLAG}
                                     /\ NewestLogical(columns, i)
                                            = DatumLogical(last.pair.row.idx[i])
                    /\ last.loc.handle_bytes = PayloadAfterIndexColumns

\* A new collation non-unique pair with one index column and two common
\* handle columns, and an old collation one, decoded.
C26_Witness ==
    /\ CommonHandleInKey
    /\ LastStored
    /\ last.loc.layout = "new"
    /\ Len(imp.columns_id_without_handle) = 1
    /\ primary_column_ids_len = 2
    /\ last.res = "Ok"
    /\ CountDatums(PayloadOf(last.pair)) = 3
    /\ NewestRaw(3) = encode_key_datum(last.pair.row.handle[2])

C26_WitnessOld ==
    /\ CommonHandleInKey
    /\ LastStored
    /\ last.loc.layout = "old"
    /\ Len(imp.columns_id_without_handle) = 1
    /\ primary_column_ids_len = 2
    /\ last.res = "Ok"

C26_WitnessShortKey ==
    /\ CommonHandleInKey
    /\ last.loc.layout = "new"
    /\ last.pair.tag = "no_handle_in_key"
    /\ Len(imp.columns_id_without_handle) = 1
    /\ CountDatums(PayloadOf(last.pair)) = 1
    /\ last.res = "Err"

\* ------------------------------------------------------- row alignment

\* Every call so far succeeded: the executor is ready for the next pair.
AllCallsSucceeded == pc = "ready"

\* C27: every successful process_kv_pair call appends exactly one row to
\* each of the schema.len() column containers, in every handle mode and
\* every layout; after any sequence of successful calls on a freshly built
\* column vector all containers hold as many rows as there were calls.
C27_RowAlignment ==
    /\ (last.called /\ last.res = "Ok")
           => /\ AppendedOneRow
              /\ Len(last.before) = Len(imp.schema)
    /\ AllCallsSucceeded
           => /\ Len(columns) = Len(imp.schema)
              /\ \A i \in 1..Len(columns) : Len(columns[i].rows) = calls

\* Two successful calls of different layouts in int handle mode.
C27_Witness ==
    /\ AllCallsSucceeded
    /\ calls = 2
    /\ imp.decode_handle_strategy = "DecodeIntHandle"
    /\ Len(columns) = 3
    /\ last.loc.layout = "new"
    /\ \A i \in 1..3 : Len(columns[i].rows) = 2

C27_WitnessCommon ==
    /\ AllCallsSucceeded
    /\ calls = 2
    /\ imp.decode_handle_strategy = "DecodeCommonHandle"
    /\ last.loc.layout = "unique_common"
    /\ \A i \in 1..Len(columns) : Len(columns[i].rows) = 2


\* ------------------------------------------------------------ the router claims

\* The calls whose send error goes through handle_send_error.
MappedSends == {"send_raft_msg", "send_command", "send_command_txn_extra", "casual_send"}

\* The region a call names: in the message, in the header of the request, or
\* as its argument.
RegionOf(call) ==
    CASE call.op = "send_raft_msg" -> call.arg.region_id
      [] call.op \in {"send_command", "send_command_txn_extra"} -> call.arg.header.region_id
      [] OTHER -> call.arg

\* The mailbox a call sends to, as it was when the call was made: the control
\* mailbox for a raft message to a region the router knows no mailbox for.
TargetMailbox(call) ==
    IF call.op = "send_raft_msg" /\ call.before.normals[RegionOf(call)].state = "none"
    THEN call.before.control
    ELSE call.before.normals[RegionOf(call)]

IsFull(mb) == mb.state = "open" /\ mb.len >= MailboxCap

IsDisconnected(mb) == mb.state # "open"

\* C28: send_raft_msg, send_command, send_command_txn_extra and casual_send
\* return Transport(Full) when the target mailbox is full, RegionNotFound of
\* the region named by the message, the request header or the argument when it
\* is disconnected, and Ok otherwise; send_store returns Transport(Full) and
\* Transport(Disconnected) for the control mailbox; broadcast_unreachable
\* returns nothing whatever the control mailbox said.
C28_SendErrorMapping ==
    /\ router_last.op \in MappedSends =>
         router_last.result =
           IF IsFull(TargetMailbox(router_last)) THEN Err(Transport(Full))
           ELSE IF IsDisconnected(TargetMailbox(router_last))
                THEN Err(RegionNotFound(RegionOf(router_last)))
                ELSE Ok(<<>>)
    /\ router_last.op = "send_store" =>
         router_last.result =
           IF IsFull(router_last.before.control) THEN Err(Transport(Full))
           ELSE IF IsDisconnected(router_last.before.control)
                THEN Err(Transport(Disconnected))
                ELSE Ok(<<>>)
    /\ router_last.op = "broadcast_unreachable" => router_last.result = <<>>

\* A command for region 2, whose mailbox is closed, came back RegionNotFound(2)
\* while region 1 has an open mailbox.
C28_Witness ==
    /\ router_last.op = "send_command"
    /\ router_last.arg.header.region_id = 2
    /\ router_last.before.normals[2].state = "closed"
    /\ router_last.before.normals[1].state = "open"
    /\ router_last.result = Err(RegionNotFound(2))

\* Each of the four mapped sends met a full mailbox.
C28_WitnessFull ==
    /\ router_last.op = "send_raft_msg"
    /\ IsFull(router_last.before.normals[router_last.arg.region_id])
    /\ router_last.result = Err(Transport(Full))

\* A raft message for a region without a mailbox went to the stopped store.
C28_WitnessRaftMsgToStore ==
    /\ router_last.op = "send_raft_msg"
    /\ router_last.before.normals[router_last.arg.region_id].state = "none"
    /\ router_last.before.control.state = "closed"
    /\ router_last.result = Err(RegionNotFound(router_last.arg.region_id))

\* send_store met the closed control mailbox.
C28_WitnessSendStore ==
    /\ router_last.op = "send_store"
    /\ router_last.before.control.state = "closed"
    /\ router_last.result = Err(Transport(Disconnected))

\* broadcast_unreachable met a full control mailbox and a closed one.
C28_WitnessBroadcastFull ==
    /\ router_last.op = "broadcast_unreachable"
    /\ IsFull(router_last.before.control)
    /\ router_last.after = router_last.before

C28_WitnessBroadcastClosed ==
    /\ router_last.op = "broadcast_unreachable"
    /\ IsDisconnected(router_last.before.control)

\* The calls built on force_send.
SignificantSends == {"significant_send", "report_unreachable", "report_snapshot_status"}

\* C29: significant_send, report_unreachable and report_snapshot_status put the
\* message in the mailbox of the region whenever it is open, a full one
\* included, and return Ok; they return RegionNotFound(region_id) when the
\* region has no open mailbox, and nothing else. On every full mailbox
\* casual_send fails with Transport(Full) where significant_send succeeds.
C29_SignificantIsForced ==
    /\ router_last.op \in SignificantSends =>
         LET mb == router_last.before.normals[router_last.arg]
         IN  IF mb.state = "open"
             THEN /\ router_last.result = Ok(<<>>)
                  /\ router_last.after.normals[router_last.arg] =
                       Mailbox("open", mb.len + 1)
             ELSE router_last.result = Err(RegionNotFound(router_last.arg))
    /\ \A region_id \in Regions :
         IsFull(router.normals[region_id]) =>
           /\ casual_send(router, region_id).result = Err(Transport(Full))
           /\ casual_send(router, region_id).router = router
           /\ significant_send(router, region_id).result = Ok(<<>>)
           /\ significant_send(router, region_id).router.normals[region_id].len
                = router.normals[region_id].len + 1
           /\ report_unreachable(router, region_id).result = Ok(<<>>)
           /\ report_snapshot_status(router, region_id).result = Ok(<<>>)

\* A significant message went into a full mailbox.
C29_Witness ==
    /\ router_last.op = "significant_send"
    /\ IsFull(router_last.before.normals[router_last.arg])
    /\ router_last.result = Ok(<<>>)
    /\ router_last.after.normals[router_last.arg].len = MailboxCap + 1

\* A casual message was turned away by a full mailbox.
C29_WitnessCasualFull ==
    /\ router_last.op = "casual_send"
    /\ IsFull(router_last.before.normals[router_last.arg])
    /\ router_last.result = Err(Transport(Full))

\* A report for a region without a mailbox failed.
C29_WitnessNoMailbox ==
    /\ router_last.op = "report_unreachable"
    /\ router_last.before.normals[router_last.arg].state = "none"
    /\ router_last.result = Err(RegionNotFound(router_last.arg))

C29_WitnessSnapshotStatus ==
    /\ router_last.op = "report_snapshot_status"
    /\ IsFull(router_last.before.normals[router_last.arg])
    /\ router_last.result = Ok(<<>>)

\* ------------------------------------------------------ the tracing config claim

\* C30: validate returns Ok for every config with an empty agent address; with
\* an address it returns an error when the address is invalid, when
\* num_report_threads is 0 or when spans_max_length is 0, and Ok otherwise. The
\* default config validates.
C30_Validate ==
    /\ validate_result # NotValidated =>
         IF config.jaeger_thrift_compact_agent = <<>>
         THEN validate_result = Ok(<<>>)
         ELSE IF \/ ~IsOk(check_addr(config.jaeger_thrift_compact_agent))
                 \/ config.num_report_threads = 0
                 \/ config.spans_max_length = 0
              THEN validate_result.res = "Err"
              ELSE validate_result = Ok(<<>>)
    /\ (validate_result # NotValidated /\ config = Config_default) =>
         validate_result = Ok(<<>>)
    /\ validate(Config_default) = Ok(<<>>)

\* A config with a valid address and no report thread was turned down.
C30_Witness ==
    /\ validate_result = Err("tracing.num_threads cannot be 0")
    /\ config.jaeger_thrift_compact_agent = <<"h", ":", "1">>
    /\ config.spans_max_length > 0

\* No address, no thread and no span: Ok.
C30_WitnessEmptyAgent ==
    /\ validate_result = Ok(<<>>)
    /\ config.jaeger_thrift_compact_agent = <<>>
    /\ config.num_report_threads = 0
    /\ config.spans_max_length = 0

C30_WitnessDefault ==
    /\ validate_result = Ok(<<>>)
    /\ config = Config_default

C30_WitnessBadAddr ==
    /\ validate_result.res = "Err"
    /\ config.jaeger_thrift_compact_agent = <<"h", ":", "0">>
    /\ config.num_report_threads > 0
    /\ config.spans_max_length > 0

C30_WitnessNoSpans ==
    /\ validate_result = Err("tracing.spans_max_length cannot be 0")
    /\ config.num_report_threads > 0

C30_WitnessOk ==
    /\ validate_result = Ok(<<>>)
    /\ config.jaeger_thrift_compact_agent # <<>>
=============================================================================
